---- MODULE Spec2Model ----
(***************************************************************************)
(* OutfeedOptimizer (feature_examples/tensorflow/inspecting_tensors/        *)
(* outfeed_optimizer.py): an optimizer wrapper that offers the gradients    *)
(* of a wrapped optimizer to a MaybeOutfeedQueue, either right after they   *)
(* are computed or right before they are applied.                           *)
(*                                                                          *)
(* The model has two layers.  The methods of the class are operators over   *)
(* a "world" record w = [heap, ops, q, log, opt, inst]:                     *)
(*   heap  the Python list objects holding (gradient, variable) pairs,      *)
(*         indexed by object identity;                                      *)
(*   ops   the TensorFlow graph under construction, one record per op,      *)
(*         with its data inputs and its control inputs;                     *)
(*   q     the MaybeOutfeedQueue (filters, pending values, enqueued flag);  *)
(*   log   the trace of what the wrapper did, in program order;             *)
(*   opt   the wrapped optimizer's own state (its name and its slots);      *)
(*   inst  the attributes of the OutfeedOptimizer instance.                 *)
(* The actions apply these operators to the state, and a session then       *)
(* executes the graph one op at a time, an op only after its data and       *)
(* control inputs.                                                          *)
(*                                                                          *)
(* Five scripts of other examples follow the optimizer, each with a         *)
(* variable and a specification of its own: connection_type.py              *)
(* (SpecConnection, and SpecConnectionEnds with fairness), pipelining.py    *)
(* (SpecPipelining), ipu_estimator_cnn.py (SpecEstimator), recompilation.py *)
(* (SpecRecompilation) and gru.py (SpecGru).  Spec follows a training       *)
(* script through graph construction and a session run; SpecDefault is Spec *)
(* for an instance built without a mode argument, SpecMalformed adds a call *)
(* of apply_gradients on a malformed list, and SpecAccessors follows the    *)
(* method and accessor calls of a script.                                   *)
(***************************************************************************)
EXTENDS Integers, Sequences, FiniteSets

VARIABLES self, loss, var_list, accumulate, heap, ops, q, log, pc, ret,
          held, needed, executed, fetched, outfed, weights, step, opt, got,
          connection, pipelining, estimator, recompilation, gru

vars == <<self, loss, var_list, accumulate, heap, ops, q, log, pc, ret,
          held, needed, executed, fetched, outfed, weights, step, opt, got,
          connection, pipelining, estimator, recompilation, gru>>

\* the state of a training script that uses the OutfeedOptimizer
training == <<self, loss, var_list, accumulate, heap, ops, q, log, pc, ret,
              held, needed, executed, fetched, outfed, weights, step, opt, got>>

\* the state of the scripts of the other examples
scripts == <<connection, pipelining, estimator, recompilation, gru>>

(***************************************************************************)
(* Bounds of the model.                                                     *)
(***************************************************************************)
\* longest var_list handed to compute_gradients
MaxVars == 2
\* micro-batches summed by the gradient accumulation placed between
\* compute_gradients and apply_gradients
AccumulationCount == 2

(***************************************************************************)
(* Values.                                                                  *)
(***************************************************************************)
\* Python's None, for a gradient, an op or a list reference
None == 0

\* the second element of a malformed pair: an object that is no variable and
\* has no name attribute (every variable has a name that is not empty)
NoVariable == <<>>

\* an argument left out of a call, so that its default applies
Omitted == "omitted"

AFTER_COMPUTE == "after_compute"
BEFORE_APPLY == "before_apply"
OutfeedOptimizerMode == {AFTER_COMPUTE, BEFORE_APPLY}

\* Strings that are searched or concatenated are sequences of characters.
NameA == <<"A">>
NameB == <<"B">>
NameAB == <<"A", "B">>
VarNames == {NameA, NameB, NameAB}
GradSuffix == <<"_", "g", "r", "a", "d">>

\* the filter sets a queue may be built with
FilterSets == SUBSET {NameA, NameAB}

\* the value of d(loss)/d(v) on one micro-batch, for a variable the loss uses
GradOf(v) == IF v = NameA THEN 1 ELSE IF v = NameB THEN 2 ELSE 3

Range(s) == {s[i] : i \in DOMAIN s}
Reverse(s) == [i \in 1..Len(s) |-> s[Len(s) + 1 - i]]

\* Python's  f in s  on strings
Contains(s, f) ==
    \E i \in 0..(Len(s) - Len(f)) : SubSeq(s, i + 1, i + Len(f)) = f

\* sequences of distinct variable names, of length at most n
VarLists(n) ==
    {s \in UNION {[1..k -> VarNames] : k \in 0..n} :
        \A i, j \in DOMAIN s : i # j => s[i] # s[j]}

(***************************************************************************)
(* Records.                                                                 *)
(***************************************************************************)
Pair(g, v) == [g |-> g, v |-> v]

Op(kind, var, inputs, ctrl, pairs, vals, global_step, name) ==
    [kind |-> kind, var |-> var, inputs |-> inputs, ctrl |-> ctrl,
     pairs |-> pairs, vals |-> vals, global_step |-> global_step, name |-> name]

Event(ev, meth, key, val, ref, global_step, name, ctrl) ==
    [ev |-> ev, meth |-> meth, key |-> key, val |-> val, ref |-> ref,
     global_step |-> global_step, name |-> name, ctrl |-> ctrl]

Returned(ref, op) == [kind |-> "ok", ref |-> ref, op |-> op, err |-> ""]
Raised(err) == [kind |-> "raise", ref |-> None, op |-> None, err |-> err]
NoReturn == [kind |-> "none", ref |-> None, op |-> None, err |-> ""]

Logged(w, e) == [w EXCEPT !.log = Append(w.log, e)]
Outcome(w, r) == [w |-> w, ret |-> r]

(***************************************************************************)
(* MaybeOutfeedQueue: the queue the wrapper offers to.  It keeps the        *)
(* filter set it was built with, the values it has accepted and not yet     *)
(* enqueued (a dictionary, in insertion order), and the flag its consumer   *)
(* reads before dequeuing.                                                  *)
(***************************************************************************)
NewQueue(filters) == [filters |-> filters, vals |-> <<>>, enqueued |-> FALSE]

\* the queue's inclusion test: some filter element occurs in the key
Accepts(filters, key) == \E f \in filters : Contains(key, f)

\* dictionary assignment  vals[key] = value
DictPut(vals, key, value) ==
    IF \E i \in DOMAIN vals : vals[i].key = key
    THEN [i \in DOMAIN vals |->
            IF vals[i].key = key THEN [key |-> key, value |-> value] ELSE vals[i]]
    ELSE Append(vals, [key |-> key, value |-> value])

\* offer: the value is kept when the filter set selects its key
maybe_outfeed(w, key, value) ==
    LET w1 == Logged(w, Event("offer", "", key, value, None, None, "", {}))
    IN  IF Accepts(w1.q.filters, key)
        THEN [w1 EXCEPT !.q.vals = DictPut(w1.q.vals, key, value)]
        ELSE w1

\* commit: with something accepted, an enqueue op carrying the accepted
\* dictionary is added to the graph, the flag is raised and the op is
\* returned; with nothing accepted, None is returned and nothing changes
maybe_enqueue(w) ==
    IF w.q.vals # <<>>
    THEN LET id == Len(w.ops) + 1
             enq == Op("enqueue", <<>>,
                       {w.q.vals[i].value : i \in DOMAIN w.q.vals} \ {None},
                       {}, <<>>, w.q.vals, None, "")
             w1 == [w EXCEPT !.ops = Append(w.ops, enq), !.q.enqueued = TRUE]
         IN  Outcome(Logged(w1, Event("commit", "", <<>>, id, None, None, "", {})), id)
    ELSE Outcome(Logged(w, Event("commit", "", <<>>, None, None, None, "", {})), None)

(***************************************************************************)
(* The wrapped optimizer (a tf.compat.v1.train.Optimizer) and the           *)
(* TensorFlow operations the wrapper calls.                                 *)
(***************************************************************************)
\* the variables of vl the loss depends on, in order
Connected(lss, vl) == SelectSeq(vl, LAMBDA v : v \in lss)

\* wrapped_optimizer.compute_gradients(loss, var_list): a new list of
\* (gradient, variable) pairs in the order of var_list; the gradient is a new
\* tensor for a variable the loss depends on and None for any other
\* variable.  With no variables it raises ValueError.
wrapped_compute_gradients(w, lss, vl) ==
    LET ref == Len(w.heap) + 1
        w1 == Logged(w, Event("wrapped.compute_gradients", "", <<>>, None,
                              IF vl = <<>> THEN None ELSE ref, None, "", {}))
        conn == Connected(lss, vl)
        base == Len(w1.ops)
        idOf(i) == base + Len(Connected(lss, SubSeq(vl, 1, i)))
        items == [i \in 1..Len(vl) |->
                    Pair(IF vl[i] \in lss THEN idOf(i) ELSE None, vl[i])]
        grads == [k \in 1..Len(conn) |->
                    Op("grad", conn[k], {}, {}, <<>>, <<>>, None, "")]
    IN  IF vl = <<>>
        THEN Outcome(w1, Raised("ValueError"))
        ELSE Outcome([w1 EXCEPT !.ops = w1.ops \o grads,
                                !.heap = Append(w1.heap, items)],
                     Returned(ref, None))

\* the state of the wrapped optimizer: its name, the names of the slots it
\* keeps per variable, and the slot variables it has created so far
WrappedName == "Momentum"
NewOptimizer == [name |-> WrappedName, slot_names |-> <<"momentum">>, slots |-> <<>>]

\* the name of a tensor that is no variable: it can be offered under its
\* name, and the wrapped optimizer cannot update it
TensorName == <<"t">>

\* the error of the wrapped optimizer's apply_gradients on a list it rejects
WrappedError(items) ==
    IF \E i \in DOMAIN items : items[i].v = TensorName /\ items[i].g # None
    THEN "NotImplementedError"
    ELSE "ValueError"

\* the pairs wrapped_optimizer.apply_gradients accepts: every pair holds a
\* variable, every gradient is the gradient of a variable, and at least one
\* pair has a gradient
WrappedAccepts(items) ==
    /\ \A i \in DOMAIN items : items[i].v # NoVariable
    /\ \A i \in DOMAIN items : items[i].v = TensorName => items[i].g = None
    /\ \E i \in DOMAIN items : items[i].g # None

\* the slot variables the wrapped optimizer holds after an update of the
\* pairs: one per slot name for every variable that has a gradient
RECURSIVE CreateSlots(_, _, _)
CreateSlots(slots, items, i) ==
    IF i > Len(items)
    THEN slots
    ELSE LET wanted == [var |-> items[i].v, name |-> "momentum"]
         IN  CreateSlots(IF items[i].g = None \/ wanted \in Range(slots)
                         THEN slots ELSE Append(slots, wanted),
                         items, i + 1)

\* wrapped_optimizer.apply_gradients(grads_and_vars, global_step, name),
\* called under the control dependencies ctrl: the update op, or ValueError
\* when the pairs are malformed
wrapped_apply_gradients(w, gv, global_step, name, ctrl) ==
    LET items == w.heap[gv]
        w1 == Logged(w, Event("wrapped.apply_gradients", "", <<>>, None, gv,
                              global_step, name, ctrl))
        id == Len(w1.ops) + 1
        upd == Op("apply", <<>>, {items[i].g : i \in DOMAIN items} \ {None},
                  ctrl, items, <<>>, global_step, name)
    IN  IF ~WrappedAccepts(items)
        THEN Outcome(w1, Raised(WrappedError(items)))
        ELSE Outcome([w1 EXCEPT !.ops = Append(w1.ops, upd),
                                !.opt.slots = CreateSlots(w1.opt.slots, items, 1)],
                     Returned(None, id))

\* the accessors of the wrapped optimizer: they read its state and change
\* nothing.  A slot variable is identified by its place in the order of
\* creation.
wrapped_get_name(w) == Outcome(w, w.opt.name)

wrapped_get_slot(w, var, name) ==
    LET wanted == [var |-> var, name |-> name]
    IN  Outcome(w, IF wanted \in Range(w.opt.slots)
                   THEN CHOOSE i \in DOMAIN w.opt.slots : w.opt.slots[i] = wanted
                   ELSE None)

wrapped_get_slot_names(w) == Outcome(w, w.opt.slot_names)

wrapped_variables(w) == Outcome(w, [i \in DOMAIN w.opt.slots |-> i])

\* array_ops.identity(x) under the control dependencies ctrl: a new
\* pass-through op on x; None is not a tensor and raises ValueError
identity(w, x, ctrl) ==
    IF x = None
    THEN Outcome(w, Raised("ValueError"))
    ELSE Outcome([w EXCEPT !.ops = Append(w.ops,
                     Op("identity", <<>>, {x}, ctrl, <<>>, <<>>, None, ""))],
                 Returned(None, Len(w.ops) + 1))

(***************************************************************************)
(* OutfeedOptimizer.                                                        *)
(***************************************************************************)
\* Faulty variant of the constructor: the mode defaults to AFTER_COMPUTE.
OutfeedOptimizer_default_after_compute(wrapped_optimizer, outfeed_queue, outfeed_optimizer_mode, name) ==
    [_name |-> IF name = Omitted THEN "OutfeedOptimizer" ELSE name,
     _wrapped_optimizer |-> wrapped_optimizer,
     _outfeed |-> outfeed_queue,
     _outfeed_optimizer_mode |->
         IF outfeed_optimizer_mode = Omitted THEN AFTER_COMPUTE
         ELSE outfeed_optimizer_mode]

\* __init__(wrapped_optimizer, outfeed_queue, outfeed_optimizer_mode, name):
\* the mode defaults to BEFORE_APPLY and the name to "OutfeedOptimizer"
OutfeedOptimizer(wrapped_optimizer, outfeed_queue, outfeed_optimizer_mode, name) ==
    [_name |-> IF name = Omitted THEN "OutfeedOptimizer" ELSE name,
     _wrapped_optimizer |-> wrapped_optimizer,
     _outfeed |-> outfeed_queue,
     _outfeed_optimizer_mode |->
         IF outfeed_optimizer_mode = Omitted THEN BEFORE_APPLY
         ELSE outfeed_optimizer_mode]

\* Faulty variant of OfferAll: the key is the bare variable name.
RECURSIVE OfferAll_no_suffix(_, _, _)
OfferAll_no_suffix(w, rev, i) ==
    IF i > Len(rev) \/ rev[i].v = NoVariable
    THEN w
    ELSE OfferAll_no_suffix(maybe_outfeed(w, rev[i].v, rev[i].g), rev, i + 1)

\* the loop of _maybe_enqueue over an already reversed list; it ends at the
\* first element whose second component has no name, where  v.name  raises
RECURSIVE OfferAll(_, _, _)
OfferAll(w, rev, i) ==
    IF i > Len(rev) \/ rev[i].v = NoVariable
    THEN w
    ELSE OfferAll(maybe_outfeed(w, rev[i].v \o GradSuffix, rev[i].g), rev, i + 1)

\* the end of _maybe_enqueue: the AttributeError of  v.name  when the loop
\* met an element without a name, the queue's commit otherwise
Commit(offered, items) ==
    IF \E i \in DOMAIN items : items[i].v = NoVariable
    THEN Outcome(offered, Raised("AttributeError"))
    ELSE LET committed == maybe_enqueue(offered)
         IN  Outcome(committed.w, Returned(None, committed.ret))

\* Faulty variant of _maybe_enqueue: the pairs are offered in the order given.
_maybe_enqueue_in_order(slf, w, grads_and_vars) ==
    Commit(OfferAll(w, w.heap[grads_and_vars], 1), w.heap[grads_and_vars])

\* Faulty variant of _maybe_enqueue: the caller's list is reversed in place
\* (grads_and_vars.reverse()) instead of a reversed copy being walked.
_maybe_enqueue_reverses_in_place(slf, w, grads_and_vars) ==
    LET w1 == [w EXCEPT !.heap[grads_and_vars] = Reverse(@)]
    IN  Commit(OfferAll(w1, w1.heap[grads_and_vars], 1), w1.heap[grads_and_vars])

\* _maybe_enqueue(grads_and_vars)
_maybe_enqueue(slf, w, grads_and_vars) ==
    Commit(OfferAll(w, Reverse(w.heap[grads_and_vars]), 1), w.heap[grads_and_vars])

\* Faulty variant of WrapFirst: the identity op is built outside the
\* control_dependencies block.
WrapFirst_no_dependency(w, items, enqueue) ==
    LET first == identity(w, items[1].g, {})
        wrapped == [i \in DOMAIN items |->
                       IF i = 1 THEN Pair(first.ret.op, items[i].v) ELSE items[i]]
        ref == Len(first.w.heap) + 1
    IN  IF first.ret.kind = "raise"
        THEN first
        ELSE Outcome([first.w EXCEPT !.heap = Append(first.w.heap, wrapped)],
                     Returned(ref, None))

\* the list comprehension of compute_gradients, built under the control
\* dependency on the enqueue op: element 0 gets identity(x), the others are
\* the same objects
WrapFirst(w, items, enqueue) ==
    LET first == identity(w, items[1].g, {enqueue})
        wrapped == [i \in DOMAIN items |->
                       IF i = 1 THEN Pair(first.ret.op, items[i].v) ELSE items[i]]
        ref == Len(first.w.heap) + 1
    IN  IF first.ret.kind = "raise"
        THEN first
        ELSE Outcome([first.w EXCEPT !.heap = Append(first.w.heap, wrapped)],
                     Returned(ref, None))

Finish(meth, o) ==
    Outcome(Logged(o.w, Event(IF o.ret.kind = "raise" THEN "raise" ELSE "return",
                              meth, <<>>, o.ret.op, o.ret.ref, None, o.ret.err, {})),
            o.ret)

\* Faulty variant of compute_gradients: without an enqueue op it returns a
\* copy of the produced list.
compute_gradients_always_copies(slf, w, lss, vl) ==
    LET w0 == Logged(w, Event("call", "compute_gradients", <<>>, None, None, None, "", {}))
        produced == wrapped_compute_gradients(w0, lss, vl)
        grads_and_vars == produced.ret.ref
        enq == _maybe_enqueue(slf, produced.w, grads_and_vars)
        gated == Logged(enq.w, Event("gate", "", <<>>, enq.ret.op, None, None, "", {}))
        copied == [gated EXCEPT !.heap = Append(gated.heap, gated.heap[grads_and_vars])]
    IN  Finish("compute_gradients",
          IF produced.ret.kind = "raise"
          THEN produced
          ELSE IF slf._outfeed_optimizer_mode = AFTER_COMPUTE
               THEN IF enq.ret.op # None
                    THEN WrapFirst(gated, gated.heap[grads_and_vars], enq.ret.op)
                    ELSE Outcome(copied, Returned(Len(copied.heap), None))
               ELSE Outcome(produced.w, Returned(grads_and_vars, None)))

\* Faulty variant of compute_gradients: the list it returns is also kept on
\* the instance (self._grads_and_vars = ...).
compute_gradients_keeps_list(slf, w, lss, vl) ==
    LET w0 == Logged(w, Event("call", "compute_gradients", <<>>, None, None, None, "", {}))
        produced == wrapped_compute_gradients(w0, lss, vl)
        grads_and_vars == produced.ret.ref
        enq == _maybe_enqueue(slf, produced.w, grads_and_vars)
        gated == Logged(enq.w, Event("gate", "", <<>>, enq.ret.op, None, None, "", {}))
        kept(o) == Outcome([o.w EXCEPT !.inst =
                               [_name |-> slf._name,
                                _wrapped_optimizer |-> slf._wrapped_optimizer,
                                _outfeed |-> slf._outfeed,
                                _outfeed_optimizer_mode |-> slf._outfeed_optimizer_mode,
                                _grads_and_vars |-> o.ret.ref]],
                           o.ret)
    IN  Finish("compute_gradients",
          IF produced.ret.kind = "raise"
          THEN produced
          ELSE IF slf._outfeed_optimizer_mode = AFTER_COMPUTE
               THEN IF enq.ret.op # None
                    THEN kept(WrapFirst(gated, gated.heap[grads_and_vars], enq.ret.op))
                    ELSE kept(Outcome(gated, Returned(grads_and_vars, None)))
               ELSE kept(Outcome(produced.w, Returned(grads_and_vars, None))))

\* Faulty variant of compute_gradients: the mode is not tested.
compute_gradients_always_enqueues(slf, w, lss, vl) ==
    LET w0 == Logged(w, Event("call", "compute_gradients", <<>>, None, None, None, "", {}))
        produced == wrapped_compute_gradients(w0, lss, vl)
        grads_and_vars == produced.ret.ref
        enq == _maybe_enqueue(slf, produced.w, grads_and_vars)
        gated == Logged(enq.w, Event("gate", "", <<>>, enq.ret.op, None, None, "", {}))
    IN  Finish("compute_gradients",
          IF produced.ret.kind = "raise"
          THEN produced
          ELSE IF enq.ret.op # None
               THEN WrapFirst(gated, gated.heap[grads_and_vars], enq.ret.op)
               ELSE Outcome(gated, Returned(grads_and_vars, None)))

\* compute_gradients(loss, var_list)
compute_gradients(slf, w, lss, vl) ==
    LET w0 == Logged(w, Event("call", "compute_gradients", <<>>, None, None, None, "", {}))
        produced == wrapped_compute_gradients(w0, lss, vl)
        grads_and_vars == produced.ret.ref
        enq == _maybe_enqueue(slf, produced.w, grads_and_vars)
        gated == Logged(enq.w, Event("gate", "", <<>>, enq.ret.op, None, None, "", {}))
    IN  Finish("compute_gradients",
          IF produced.ret.kind = "raise"
          THEN produced
          ELSE IF slf._outfeed_optimizer_mode = AFTER_COMPUTE
               THEN IF enq.ret.kind = "raise"
                    THEN enq
                    ELSE IF enq.ret.op # None
                    THEN WrapFirst(gated, gated.heap[grads_and_vars], enq.ret.op)
                    ELSE Outcome(gated, Returned(grads_and_vars, None))
               ELSE Outcome(produced.w, Returned(grads_and_vars, None)))

\* Faulty variant of apply_gradients: global_step is not passed on when an
\* enqueue op was returned.
apply_gradients_drops_step(slf, w, grads_and_vars, global_step, name) ==
    LET w0 == Logged(w, Event("call", "apply_gradients", <<>>, None, grads_and_vars,
                              global_step, name, {}))
        enq == _maybe_enqueue(slf, w0, grads_and_vars)
        gated == Logged(enq.w, Event("gate", "", <<>>, enq.ret.op, None, None, "", {}))
    IN  Finish("apply_gradients",
          IF slf._outfeed_optimizer_mode = BEFORE_APPLY
          THEN IF enq.ret.op # None
               THEN wrapped_apply_gradients(gated, grads_and_vars, None, name, {enq.ret.op})
               ELSE wrapped_apply_gradients(gated, grads_and_vars, global_step, name, {})
          ELSE wrapped_apply_gradients(w0, grads_and_vars, global_step, name, {}))

\* Faulty variant of apply_gradients: the wrapped optimizer is called first
\* and the gradients are offered afterwards.
apply_gradients_apply_first(slf, w, grads_and_vars, global_step, name) ==
    LET w0 == Logged(w, Event("call", "apply_gradients", <<>>, None, grads_and_vars,
                              global_step, name, {}))
        upd == wrapped_apply_gradients(w0, grads_and_vars, global_step, name, {})
        enq == _maybe_enqueue(slf, upd.w, grads_and_vars)
        gated == Logged(enq.w, Event("gate", "", <<>>, enq.ret.op, None, None, "", {}))
    IN  Finish("apply_gradients",
          IF slf._outfeed_optimizer_mode = BEFORE_APPLY /\ upd.ret.kind = "ok"
          THEN Outcome(gated, upd.ret)
          ELSE upd)

\* Faulty variant of apply_gradients: the wrapped optimizer is called outside
\* the control_dependencies block.
apply_gradients_no_dependency(slf, w, grads_and_vars, global_step, name) ==
    LET w0 == Logged(w, Event("call", "apply_gradients", <<>>, None, grads_and_vars,
                              global_step, name, {}))
        enq == _maybe_enqueue(slf, w0, grads_and_vars)
        gated == Logged(enq.w, Event("gate", "", <<>>, enq.ret.op, None, None, "", {}))
    IN  Finish("apply_gradients",
          IF slf._outfeed_optimizer_mode = BEFORE_APPLY
          THEN wrapped_apply_gradients(gated, grads_and_vars, global_step, name, {})
          ELSE wrapped_apply_gradients(w0, grads_and_vars, global_step, name, {}))

\* Faulty variant of apply_gradients: the mode is not tested.
apply_gradients_always_enqueues(slf, w, grads_and_vars, global_step, name) ==
    LET w0 == Logged(w, Event("call", "apply_gradients", <<>>, None, grads_and_vars,
                              global_step, name, {}))
        enq == _maybe_enqueue(slf, w0, grads_and_vars)
        gated == Logged(enq.w, Event("gate", "", <<>>, enq.ret.op, None, None, "", {}))
    IN  Finish("apply_gradients",
          IF enq.ret.op # None
          THEN wrapped_apply_gradients(gated, grads_and_vars, global_step, name,
                                       {enq.ret.op})
          ELSE wrapped_apply_gradients(gated, grads_and_vars, global_step, name, {}))

\* Faulty variant of apply_gradients: when the call fails the queue is put
\* back as it was before the call.
apply_gradients_restores_queue(slf, w, grads_and_vars, global_step, name) ==
    LET w0 == Logged(w, Event("call", "apply_gradients", <<>>, None, grads_and_vars,
                              global_step, name, {}))
        enq == _maybe_enqueue(slf, w0, grads_and_vars)
        gated == Logged(enq.w, Event("gate", "", <<>>, enq.ret.op, None, None, "", {}))
        done == IF slf._outfeed_optimizer_mode = BEFORE_APPLY
                THEN IF enq.ret.kind = "raise"
                     THEN enq
                     ELSE IF enq.ret.op # None
                     THEN wrapped_apply_gradients(gated, grads_and_vars, global_step,
                                                  name, {enq.ret.op})
                     ELSE wrapped_apply_gradients(gated, grads_and_vars, global_step,
                                                  name, {})
                ELSE wrapped_apply_gradients(w0, grads_and_vars, global_step, name, {})
    IN  Finish("apply_gradients",
          IF done.ret.kind = "raise" THEN [done EXCEPT !.w.q = w.q] ELSE done)

\* apply_gradients(grads_and_vars, global_step, name)
apply_gradients(slf, w, grads_and_vars, global_step, name) ==
    LET w0 == Logged(w, Event("call", "apply_gradients", <<>>, None, grads_and_vars,
                              global_step, name, {}))
        enq == _maybe_enqueue(slf, w0, grads_and_vars)
        gated == Logged(enq.w, Event("gate", "", <<>>, enq.ret.op, None, None, "", {}))
    IN  Finish("apply_gradients",
          IF slf._outfeed_optimizer_mode = BEFORE_APPLY
          THEN IF enq.ret.kind = "raise"
               THEN enq
               ELSE IF enq.ret.op # None
               THEN wrapped_apply_gradients(gated, grads_and_vars, global_step, name,
                                            {enq.ret.op})
               ELSE wrapped_apply_gradients(gated, grads_and_vars, global_step, name, {})
          ELSE wrapped_apply_gradients(w0, grads_and_vars, global_step, name, {}))

\* Faulty variant of get_name: the name given at construction is returned
\* (the accessor is not overridden and Optimizer.get_name answers).
get_name_of_wrapper(slf, w) == Outcome(w, slf._name)

\* get_name()
get_name(slf, w) == wrapped_get_name(w)

\* get_slot(var, name)
get_slot(slf, w, var, name) == wrapped_get_slot(w, var, name)

\* get_slot_names()
get_slot_names(slf, w) == wrapped_get_slot_names(w)

\* variables()
variables(slf, w) == wrapped_variables(w)

(***************************************************************************)
(* Gradient accumulation placed between compute_gradients and               *)
(* apply_gradients (as pipelining does): every gradient is replaced by a    *)
(* tensor that sums it over AccumulationCount micro-batches; a pair without *)
(* a gradient stays without one.  The result is a new list.                 *)
(***************************************************************************)
accumulate_gradients(w, grads_and_vars) ==
    LET items == w.heap[grads_and_vars]
        present == SelectSeq(items, LAMBDA p : p.g # None)
        base == Len(w.ops)
        idOf(i) == base + Len(SelectSeq(SubSeq(items, 1, i), LAMBDA p : p.g # None))
        accs == [k \in 1..Len(present) |->
                    Op("accum", present[k].v, {present[k].g}, {}, <<>>, <<>>, None, "")]
        summed == [i \in DOMAIN items |->
                    IF items[i].g # None THEN Pair(idOf(i), items[i].v) ELSE items[i]]
    IN  Outcome([w EXCEPT !.ops = w.ops \o accs, !.heap = Append(w.heap, summed)],
                Returned(Len(w.heap) + 1, None))

(***************************************************************************)
(* Graph execution: a session run executes the ops its fetch depends on,    *)
(* each after its data inputs and its control inputs.                       *)
(***************************************************************************)
Deps(g, o) == g[o].inputs \cup g[o].ctrl

RECURSIVE Closure(_, _)
Closure(g, S) ==
    LET more == S \cup UNION {Deps(g, o) : o \in S}
    IN  IF more = S THEN S ELSE Closure(g, more)

\* the value a tensor takes when its op executes
RECURSIVE Value(_, _)
Value(g, t) ==
    IF t = None THEN 0
    ELSE IF g[t].kind = "grad" THEN GradOf(g[t].var)
    ELSE IF g[t].kind = "identity" THEN Value(g, CHOOSE x \in g[t].inputs : TRUE)
    ELSE IF g[t].kind = "accum"
         THEN AccumulationCount * Value(g, CHOOSE x \in g[t].inputs : TRUE)
    ELSE 0

\* the dictionary an enqueue op sends to the host
Sent(g, o) ==
    [i \in DOMAIN g[o].vals |->
        [key |-> g[o].vals[i].key, value |-> Value(g, g[o].vals[i].value)]]

\* the update an apply op makes to the variables
Updated(g, o, ws) ==
    [v \in DOMAIN ws |->
        IF \E i \in DOMAIN g[o].pairs : g[o].pairs[i].v = v /\ g[o].pairs[i].g # None
        THEN LET i == CHOOSE i \in DOMAIN g[o].pairs :
                          g[o].pairs[i].v = v /\ g[o].pairs[i].g # None
             IN  ws[v] - Value(g, g[o].pairs[i].g)
        ELSE ws[v]]

(***************************************************************************)
(* State machine.                                                           *)
(***************************************************************************)
World == [heap |-> heap, ops |-> ops, q |-> q, log |-> log, opt |-> opt, inst |-> self]

Idle == needed \subseteq Range(executed)

\* the tensors of a returned list
Gradients(items) == {items[i].g : i \in DOMAIN items} \ {None}

\* a step counter variable, for global_step
GlobalStep == 1

\* the scripts of the other examples have not been started
ScriptsNotStarted ==
    /\ connection = [pc |-> "not started"]
    /\ pipelining = [pc |-> "not started"]
    /\ estimator = [pc |-> "not started"]
    /\ recompilation = [pc |-> "not started"]
    /\ gru = [pc |-> "not started"]

\* no graph has been built and nothing has run
NothingBuilt ==
    /\ heap = <<>>
    /\ ops = <<>>
    /\ log = <<>>
    /\ pc = "constructed"
    /\ ret = NoReturn
    /\ held = {}
    /\ needed = {}
    /\ executed = <<>>
    /\ fetched = None
    /\ outfed = <<>>
    /\ weights = [v \in VarNames |-> 0]
    /\ step = 0
    /\ opt = NewOptimizer
    /\ got = [meth |-> "none"]

\* the training script is not the one that runs
NoTraining ==
    /\ self = OutfeedOptimizer("wrapped", "queue", Omitted, Omitted)
    /\ var_list = <<>>
    /\ loss = {}
    /\ accumulate = FALSE
    /\ q = NewQueue({})
    /\ NothingBuilt

\* a training script has built its optimizer with one of the given mode and
\* name arguments, and its loss, variables and queue
Constructed(modes, names) ==
    /\ \E m \in modes, n \in names : self = OutfeedOptimizer("wrapped", "queue", m, n)
    /\ var_list \in VarLists(MaxVars)
    /\ loss \in SUBSET Range(var_list)
    /\ accumulate \in BOOLEAN
    /\ \E f \in FilterSets : q = NewQueue(f)
    /\ NothingBuilt

Init == Constructed(OutfeedOptimizerMode \cup {Omitted}, {Omitted}) /\ ScriptsNotStarted

Became(o) ==
    /\ self' = o.w.inst
    /\ opt' = o.w.opt
    /\ heap' = o.w.heap
    /\ ops' = o.w.ops
    /\ q' = o.w.q
    /\ log' = o.w.log
    /\ ret' = o.ret

\* the training script calls opt.compute_gradients(loss, var_list)
ComputeGradients ==
    /\ pc = "constructed"
    /\ LET o == compute_gradients(self, World, loss, var_list)
       IN  /\ Became(o)
           /\ pc' = IF o.ret.kind = "raise" THEN "raised" ELSE "computed"
           /\ held' = IF o.ret.kind = "raise" THEN held
                      ELSE held \cup Gradients(o.w.heap[o.ret.ref])
    /\ UNCHANGED <<loss, var_list, accumulate, needed, executed, fetched,
                   outfed, weights, step, got, scripts>>

\* the gradients are accumulated before they are applied
Accumulate ==
    /\ pc = "computed"
    /\ accumulate
    /\ fetched = None
    /\ LET o == accumulate_gradients(World, ret.ref)
       IN  /\ Became(o)
           /\ held' = held \cup Gradients(o.w.heap[o.ret.ref])
    /\ pc' = "accumulated"
    /\ UNCHANGED <<loss, var_list, accumulate, needed, executed, fetched,
                   outfed, weights, step, got, scripts>>

\* the training script calls opt.apply_gradients(grads_and_vars, global_step, name)
ApplyGradients ==
    /\ pc = IF accumulate THEN "accumulated" ELSE "computed"
    /\ fetched = None
    /\ \E global_step \in {None, GlobalStep}, name \in {"None", "train"} :
         LET o == apply_gradients(self, World, ret.ref, global_step, name)
         IN  /\ Became(o)
             /\ pc' = IF o.ret.kind = "raise" THEN "raised" ELSE "applied"
             /\ held' = IF o.ret.kind = "raise" THEN held ELSE held \cup {o.ret.op}
    /\ UNCHANGED <<loss, var_list, accumulate, needed, executed, fetched,
                   outfed, weights, step, got, scripts>>

\* the training script calls opt.apply_gradients(grads_and_vars) with a list
\* it has built from the returned one, in which one element holds something
\* that is no variable in the place of the variable
ApplyMalformed ==
    /\ pc = IF accumulate THEN "accumulated" ELSE "computed"
    /\ fetched = None
    /\ \E i \in DOMAIN heap[ret.ref], x \in {NoVariable, TensorName} :
         LET malformed == [heap[ret.ref] EXCEPT ![i].v = x]
             w == [World EXCEPT !.heap = Append(heap, malformed)]
             o == apply_gradients(self, w, Len(heap) + 1, None, "None")
         IN  /\ x = TensorName => heap[ret.ref][i].g # None
             /\ Became(o)
             /\ pc' = IF o.ret.kind = "raise" THEN "raised" ELSE "applied"
             /\ held' = IF o.ret.kind = "raise" THEN held ELSE held \cup {o.ret.op}
    /\ UNCHANGED <<loss, var_list, accumulate, needed, executed, fetched,
                   outfed, weights, step, got, scripts>>

\* what an accessor call leaves behind: the world it returns, and in  got
\* the call, its arguments, its result and the state the wrapped optimizer
\* was in
Accessed(meth, var, name, o) ==
    /\ self' = o.w.inst
    /\ opt' = o.w.opt
    /\ heap' = o.w.heap
    /\ ops' = o.w.ops
    /\ q' = o.w.q
    /\ log' = o.w.log
    /\ got' = [meth |-> meth, var |-> var, name |-> name, value |-> o.ret, opt |-> opt]
    /\ UNCHANGED <<loss, var_list, accumulate, pc, ret, held, needed, executed,
                   fetched, outfed, weights, step, scripts>>

\* the names a script asks a slot for
SlotNames == {"momentum", "velocity"}

\* the script calls opt.get_name()
GetName == Accessed("get_name", NoVariable, "", get_name(self, World))

\* the script calls opt.get_slot(var, name)
GetSlot ==
    \E var \in VarNames, name \in SlotNames :
        Accessed("get_slot", var, name, get_slot(self, World, var, name))

\* the script calls opt.get_slot_names()
GetSlotNames == Accessed("get_slot_names", NoVariable, "", get_slot_names(self, World))

\* the script calls opt.variables()
Variables == Accessed("variables", NoVariable, "", variables(self, World))

\* session.run(fetch) on a tensor or op the script holds: the script builds
\* its graph and then runs it; one run is followed
Run ==
    /\ pc \in {"computed", "accumulated", "applied"}
    /\ fetched = None
    /\ \E fetch \in held :
         /\ fetched' = fetch
         /\ needed' = Closure(ops, {fetch})
    /\ executed' = <<>>
    /\ UNCHANGED <<self, loss, var_list, accumulate, heap, ops, q, log, pc, ret,
                   held, outfed, weights, step, opt, got, scripts>>

\* the session executes one op whose inputs have all executed
ExecOp ==
    /\ \E o \in needed \ Range(executed) :
         /\ Deps(ops, o) \subseteq Range(executed)
         /\ executed' = Append(executed, o)
         /\ outfed' = IF ops[o].kind = "enqueue" THEN Append(outfed, Sent(ops, o))
                      ELSE outfed
         /\ weights' = IF ops[o].kind = "apply" THEN Updated(ops, o, weights)
                       ELSE weights
         /\ step' = IF ops[o].kind = "apply" /\ ops[o].global_step # None
                    THEN step + 1 ELSE step
    /\ UNCHANGED <<self, loss, var_list, accumulate, heap, ops, q, log, pc, ret,
                   held, needed, fetched, opt, got, scripts>>

Next == ComputeGradients \/ Accumulate \/ ApplyGradients \/ Run \/ ExecOp

Spec == Init /\ [][Next]_vars

\* the graph construction of a script that may also hand apply_gradients a
\* malformed list
NextMalformed == ComputeGradients \/ Accumulate \/ ApplyGradients \/ ApplyMalformed

SpecMalformed == Init /\ [][NextMalformed]_vars

\* a script that builds its optimizer without a mode argument
InitDefault == Constructed({Omitted}, {Omitted}) /\ ScriptsNotStarted

SpecDefault == InitDefault /\ [][Next]_vars

\* the calls a script makes on an instance it has built with or without a
\* name of its own: the two methods and the four accessors, in any order the
\* script allows
InitAccessors ==
    /\ Constructed(OutfeedOptimizerMode \cup {Omitted}, {Omitted, "outfeeder"})
    /\ ScriptsNotStarted

NextAccessors ==
    \/ ComputeGradients
    \/ Accumulate
    \/ ApplyGradients
    \/ GetName
    \/ GetSlot
    \/ GetSlotNames
    \/ Variables

SpecAccessors == InitAccessors /\ [][NextAccessors]_vars

(***************************************************************************)
(* Reading the trace.  One behaviour makes at most one call of each         *)
(* method, so a method's invocation is the part of the log between its      *)
(* "call" event and its "return" or "raise" event.                          *)
(***************************************************************************)
CallAt(meth) == {i \in DOMAIN log : log[i].ev = "call" /\ log[i].meth = meth}
EndAt(meth) == {i \in DOMAIN log : log[i].ev \in {"return", "raise"} /\ log[i].meth = meth}
Called(meth) == CallAt(meth) # {} /\ EndAt(meth) # {}
CallOf(meth) == log[CHOOSE i \in CallAt(meth) : TRUE]
EndOf(meth) == log[CHOOSE i \in EndAt(meth) : TRUE]
Segment(meth) ==
    IF Called(meth)
    THEN SubSeq(log, (CHOOSE i \in CallAt(meth) : TRUE) + 1,
                     (CHOOSE i \in EndAt(meth) : TRUE) - 1)
    ELSE <<>>
Only(seg, evs) == SelectSeq(seg, LAMBDA e : e.ev \in evs)
\* positions of the events of a kind within a segment
Where(seg, ev) == {i \in DOMAIN seg : seg[i].ev = ev}

Mode == self._outfeed_optimizer_mode

\* what an update op does: the pairs it applies, the step counter it
\* increments and its name (its control inputs are not part of the update)
Update(o) == [pairs |-> o.pairs, global_step |-> o.global_step, name |-> o.name]

(***************************************************************************)
(* C1.  apply_gradients calls the wrapped optimizer's apply_gradients       *)
(* exactly once, with the list, step counter and name it was given, and     *)
(* returns the op that call returns; the update is the one a direct call of *)
(* the wrapped optimizer on the same arguments builds, in either mode and   *)
(* whether or not anything was enqueued.                                    *)
(***************************************************************************)
C1_ApplyDelegatesOnce ==
    Called("apply_gradients") =>
        LET call == CallOf("apply_gradients")
            dels == Only(Segment("apply_gradients"), {"wrapped.apply_gradients"})
            direct == wrapped_apply_gradients(World, call.ref, call.global_step,
                                              call.name, {})
        IN  WrappedAccepts(heap[call.ref]) =>
              /\ Len(dels) = 1
              /\ dels[1].ref = call.ref
              /\ dels[1].global_step = call.global_step
              /\ dels[1].name = call.name
              /\ EndOf("apply_gradients").ev = "return"
              /\ EndOf("apply_gradients").val \in DOMAIN ops
              /\ ops[EndOf("apply_gradients").val].kind = "apply"
              /\ Update(ops[EndOf("apply_gradients").val])
                   = Update(direct.w.ops[direct.ret.op])
              /\ EndOf("apply_gradients").val \in Range(executed) =>
                    /\ weights = Updated(direct.w.ops, direct.ret.op,
                                         [v \in VarNames |-> 0])
                    /\ step = IF call.global_step # None THEN 1 ELSE 0

\* apply_gradients has returned an update that increments the step counter,
\* in before-apply mode with a gradient enqueued
C1_Witness ==
    /\ pc = "applied"
    /\ Mode = BEFORE_APPLY
    /\ q.enqueued
    /\ CallOf("apply_gradients").global_step = GlobalStep
    /\ Len(heap[CallOf("apply_gradients").ref]) = 2

(***************************************************************************)
(* C2.  At the active interception point the wrapper offers every pair of   *)
(* its input to the queue, whatever the queue's filters: the offers are the *)
(* input pairs in reverse order, each with the key  <variable name>_grad    *)
(* and that variable's gradient as the value.                               *)
(***************************************************************************)
ActiveMethod == IF Mode = AFTER_COMPUTE THEN "compute_gradients" ELSE "apply_gradients"

\* the list the active method offers from: the list the wrapped optimizer
\* produced (compute_gradients) or the argument (apply_gradients)
OfferedFrom ==
    IF Mode = AFTER_COMPUTE
    THEN Only(Segment("compute_gradients"), {"wrapped.compute_gradients"})[1].ref
    ELSE CallOf("apply_gradients").ref

C2_OffersAreReversedKeys ==
    (Called(ActiveMethod) /\ OfferedFrom # None) =>
        LET items == heap[OfferedFrom]
            n == Len(items)
            offers == Only(Segment(ActiveMethod), {"offer"})
        IN  /\ Len(offers) = n
            /\ \A i \in 1..n :
                 /\ offers[i].key = items[n + 1 - i].v \o GradSuffix
                 /\ offers[i].val = items[n + 1 - i].g

\* two pairs were offered to a queue that keeps none of them
C2_Witness ==
    /\ Called(ActiveMethod)
    /\ Len(Only(Segment(ActiveMethod), {"offer"})) = 2
    /\ q.filters = {}
    /\ q.vals = <<>>

(***************************************************************************)
(* C3.  Order of the events of one invocation.                              *)
(***************************************************************************)
\* every event of kind a in the segment comes before every event of kind b
Before(seg, a, b) == \A i \in Where(seg, a), j \in Where(seg, b) : i < j

DelegateOf(meth) ==
    IF meth = "compute_gradients" THEN "wrapped.compute_gradients"
    ELSE "wrapped.apply_gradients"

\* C3 as stated: in the active method, compute_gradients included, all
\* offers come first, then the commit, then the gate, then the delegation to
\* the wrapped optimizer, which is never invoked before the commit (stated
\* here of the invocations that return).
C3_DelegateAfterCommit ==
    (Called(ActiveMethod) /\ EndOf(ActiveMethod).ev = "return") =>
        LET seg == Segment(ActiveMethod)
            del == DelegateOf(ActiveMethod)
        IN  /\ Before(seg, "offer", "commit")
            /\ Before(seg, "commit", "gate")
            /\ Before(seg, "gate", del)
            /\ Before(seg, "commit", del)

\* C3 as amended: apply_gradients in before-apply mode makes all offers, then
\* the commit, then the gate, then the one call of the wrapped optimizer's
\* apply_gradients; compute_gradients in after-compute mode first calls the
\* wrapped optimizer's compute_gradients, once, and then makes all offers,
\* the commit and the gate.
C3_OrderPerMethod ==
    /\ (Mode = BEFORE_APPLY /\ Called("apply_gradients")) =>
          LET seg == Segment("apply_gradients")
          IN  /\ Cardinality(Where(seg, "commit")) = 1
              /\ Cardinality(Where(seg, "gate")) = 1
              /\ Cardinality(Where(seg, "wrapped.apply_gradients")) = 1
              /\ Before(seg, "offer", "commit")
              /\ Before(seg, "commit", "gate")
              /\ Before(seg, "gate", "wrapped.apply_gradients")
    /\ (Mode = AFTER_COMPUTE /\ Called("compute_gradients")) =>
          LET seg == Segment("compute_gradients")
          IN  /\ Cardinality(Where(seg, "wrapped.compute_gradients")) = 1
              /\ OfferedFrom # None =>
                    /\ Cardinality(Where(seg, "commit")) = 1
                    /\ Cardinality(Where(seg, "gate")) = 1
                    /\ Before(seg, "wrapped.compute_gradients", "offer")
                    /\ Before(seg, "wrapped.compute_gradients", "commit")
                    /\ Before(seg, "offer", "commit")
                    /\ Before(seg, "commit", "gate")

\* apply_gradients in before-apply mode has offered one pair, committed it
\* and delegated
C3_Witness ==
    /\ Mode = BEFORE_APPLY
    /\ Called("apply_gradients")
    /\ Cardinality(Where(Segment("apply_gradients"), "offer")) = 1
    /\ q.enqueued
    /\ EndOf("apply_gradients").ev = "return"

(***************************************************************************)
(* C4.  In before-apply mode, when the commit returned an enqueue op the    *)
(* update op is built under a control dependency on it, so in every         *)
(* session run that executes the update the enqueue has executed before it  *)
(* and its dictionary has reached the host; when the commit returned None   *)
(* the update is built with no control dependency.                          *)
(***************************************************************************)
\* what the commit of the method's invocation returned
CommitOf(meth) == Only(Segment(meth), {"commit"})[1].val

\* op a occurs before op b in the current run
ExecutedBefore(a, b) ==
    \E i, j \in DOMAIN executed : i < j /\ executed[i] = a /\ executed[j] = b

C4_ApplyOrderedAfterCommit ==
    (Mode = BEFORE_APPLY /\ Called("apply_gradients")
       /\ EndOf("apply_gradients").ev = "return") =>
        LET commit == CommitOf("apply_gradients")
            upd == EndOf("apply_gradients").val
            del == Only(Segment("apply_gradients"), {"wrapped.apply_gradients"})[1]
        IN  /\ commit # None =>
                 /\ ops[commit].kind = "enqueue"
                 /\ del.ctrl = {commit}
                 /\ ops[upd].ctrl = {commit}
                 /\ upd \in Range(executed) =>
                       (ExecutedBefore(commit, upd) /\ outfed # <<>>)
            /\ commit = None =>
                 /\ del.ctrl = {}
                 /\ ops[upd].ctrl = {}

\* a session run has executed the update after the enqueue
C4_Witness ==
    /\ Mode = BEFORE_APPLY
    /\ Called("apply_gradients")
    /\ EndOf("apply_gradients").ev = "return"
    /\ EndOf("apply_gradients").val \in Range(executed)
    /\ outfed # <<>>

(***************************************************************************)
(* C5.  After-compute mode, commit accepted: which session runs execute     *)
(* the enqueue.                                                             *)
(***************************************************************************)
ComputeReturned ==
    Called("compute_gradients") /\ EndOf("compute_gradients").ev = "return"

\* the list compute_gradients returned
ReturnedList == heap[EndOf("compute_gradients").ref]

\* C5 as stated: every finished session run that consumes any of the
\* returned pairs has executed the enqueue.
C5_AnyPairRunsCommit ==
    (Mode = AFTER_COMPUTE /\ ComputeReturned /\ fetched # None /\ Idle) =>
        LET commit == CommitOf("compute_gradients")
        IN  (commit # None /\ needed \cap Gradients(ReturnedList) # {}) =>
                commit \in Range(executed)

\* C5 as amended: the first returned gradient is an identity op with a
\* control dependency on the enqueue, so every session run that consumes the
\* first returned gradient executes the enqueue, and executes it before that
\* gradient is produced.
C5_FirstGradientRunsCommit ==
    (Mode = AFTER_COMPUTE /\ ComputeReturned) =>
        LET commit == CommitOf("compute_gradients")
            first == ReturnedList[1].g
        IN  commit # None =>
              /\ ops[first].kind = "identity"
              /\ commit \in ops[first].ctrl
              /\ first \in needed => commit \in needed
              /\ first \in Range(executed) =>
                    (ExecutedBefore(commit, first) /\ outfed # <<>>)

\* a session run has executed the identity op of the first gradient
C5_Witness ==
    /\ Mode = AFTER_COMPUTE
    /\ ComputeReturned
    /\ CommitOf("compute_gradients") # None
    /\ ReturnedList[1].g \in Range(executed)
    /\ outfed # <<>>

(***************************************************************************)
(* C6.  After-compute mode with a filter set that matches none of the       *)
(* variable names: the commit returns None, nothing is enqueued, and        *)
(* compute_gradients returns the very list object the wrapped optimizer     *)
(* produced, with every pair as produced.                                   *)
(***************************************************************************)
NoMatch == \A i \in DOMAIN var_list, f \in q.filters : ~Contains(var_list[i], f)

C6_NoMatchReturnsProduced ==
    (Mode = AFTER_COMPUTE /\ Called("compute_gradients") /\ var_list # <<>> /\ NoMatch) =>
        LET end == EndOf("compute_gradients")
        IN  /\ CommitOf("compute_gradients") = None
            /\ ~q.enqueued
            /\ q.vals = <<>>
            /\ \A o \in DOMAIN ops : ops[o].kind # "enqueue"
            /\ end.ev = "return"
            /\ end.ref = OfferedFrom
            /\ Len(heap[end.ref]) = Len(var_list)
            /\ \A i \in DOMAIN var_list :
                 /\ heap[end.ref][i].v = var_list[i]
                 /\ var_list[i] \notin loss => heap[end.ref][i].g = None
                 /\ var_list[i] \in loss =>
                       /\ ops[heap[end.ref][i].g].kind = "grad"
                       /\ ops[heap[end.ref][i].g].var = var_list[i]

\* two variables, a filter set that is not empty and matches neither
C6_Witness ==
    /\ Mode = AFTER_COMPUTE
    /\ ComputeReturned
    /\ Len(var_list) = 2
    /\ q.filters # {}
    /\ NoMatch

(***************************************************************************)
(* C7.  Exactly one interception point is active per instance: all offers,  *)
(* commits and gates are made inside compute_gradients by an after-compute  *)
(* instance and inside apply_gradients by a before-apply instance; the      *)
(* other method makes none, and the active one makes its one commit.        *)
(***************************************************************************)
InactiveMethod == IF Mode = AFTER_COMPUTE THEN "apply_gradients" ELSE "compute_gradients"

C7_OneInterceptionPoint ==
    /\ Only(Segment(InactiveMethod), {"offer", "commit", "gate"}) = <<>>
    /\ Only(log, {"offer", "commit", "gate"})
         = Only(Segment(ActiveMethod), {"offer", "commit", "gate"})
    /\ (Called(ActiveMethod) /\ OfferedFrom # None) =>
          Cardinality(Where(Segment(ActiveMethod), "commit")) = 1
    /\ Mode \in OutfeedOptimizerMode

\* an after-compute instance enqueued in compute_gradients and was then
\* asked to apply
C7_Witness ==
    /\ Mode = AFTER_COMPUTE
    /\ Called("apply_gradients")
    /\ q.enqueued
    /\ Cardinality(Where(Segment("compute_gradients"), "offer")) = 2

(***************************************************************************)
(* C8.  The queue keeps exactly the offered keys whose variable name        *)
(* contains an element of the filter set, in the order offered; with the    *)
(* variables A and B, the filter set {"A"} and before-apply mode it keeps   *)
(* only "A_grad", the commit returns an enqueue op, the update runs after   *)
(* the enqueue and is the update a direct call of the wrapped optimizer     *)
(* builds.                                                                  *)
(***************************************************************************)
Selected(items, filters) ==
    SelectSeq(Reverse(items), LAMBDA p : \E f \in filters : Contains(p.v, f))

C8_QueueRetainsFiltered ==
    /\ (Called(ActiveMethod) /\ OfferedFrom # None) =>
          LET sel == Selected(heap[OfferedFrom], q.filters)
          IN  q.vals = [i \in DOMAIN sel |->
                          [key |-> sel[i].v \o GradSuffix, value |-> sel[i].g]]
    /\ (var_list = <<NameA, NameB>> /\ q.filters = {NameA} /\ Mode = BEFORE_APPLY
          /\ Called("apply_gradients") /\ WrappedAccepts(heap[CallOf("apply_gradients").ref])) =>
          LET call == CallOf("apply_gradients")
              commit == CommitOf("apply_gradients")
              upd == EndOf("apply_gradients").val
              direct == wrapped_apply_gradients(World, call.ref, call.global_step,
                                                call.name, {})
          IN  /\ [i \in DOMAIN q.vals |-> q.vals[i].key] = << <<"A", "_", "g", "r", "a", "d">> >>
              /\ commit # None
              /\ q.enqueued
              /\ EndOf("apply_gradients").ev = "return"
              /\ commit \in ops[upd].ctrl
              /\ upd \in Range(executed) => ExecutedBefore(commit, upd)
              /\ Update(ops[upd]) = Update(direct.w.ops[direct.ret.op])

\* the scenario has run: the update has executed and the host has received
\* a dictionary with the one key "A_grad"
C8_Witness ==
    /\ var_list = <<NameA, NameB>>
    /\ loss = {NameA, NameB}
    /\ q.filters = {NameA}
    /\ Mode = BEFORE_APPLY
    /\ Called("apply_gradients")
    /\ EndOf("apply_gradients").val \in Range(executed)
    /\ Len(outfed) = 1
    /\ Len(outfed[1]) = 1

(***************************************************************************)
(* One training step, as Optimizer.minimize makes it: compute_gradients,    *)
(* the gradient accumulation when there is one, then apply_gradients on the *)
(* resulting list.  An exception ends the step where it is raised.          *)
(***************************************************************************)
TrainingStep(slf, w, lss, vl, acc, global_step, name) ==
    LET computed == compute_gradients(slf, w, lss, vl)
        summed == IF acc THEN accumulate_gradients(computed.w, computed.ret.ref)
                  ELSE computed
    IN  IF computed.ret.kind = "raise"
        THEN computed
        ELSE apply_gradients(slf, summed.w, summed.ret.ref, global_step, name)

OtherMode == IF Mode = AFTER_COMPUTE THEN BEFORE_APPLY ELSE AFTER_COMPUTE

\* the world of a fresh instance of the other mode with the same queue
\* configuration
FreshWorld ==
    [heap |-> <<>>, ops |-> <<>>, q |-> NewQueue(q.filters), log |-> <<>>,
     opt |-> NewOptimizer, inst |-> OutfeedOptimizer("wrapped", "queue", OtherMode, Omitted)]

\* the step counter and name of this behaviour's apply_gradients call
StepArgs ==
    IF Called("apply_gradients")
    THEN [global_step |-> CallOf("apply_gradients").global_step,
          name |-> CallOf("apply_gradients").name]
    ELSE [global_step |-> None, name |-> "None"]

\* the same training step made by an instance of the other mode
OtherStep ==
    TrainingStep(FreshWorld.inst, FreshWorld,
                 loss, var_list, accumulate, StepArgs.global_step, StepArgs.name)

\* this behaviour's training step, once it has ended
ThisStep == Outcome(World, ret)
StepEnded == pc \in {"applied", "raised"}

\* the keys and values a step has put on the queue, in order
Queued(o) ==
    [i \in DOMAIN o.w.q.vals |->
        [key |-> o.w.q.vals[i].key, value |-> Value(o.w.ops, o.w.q.vals[i].value)]]

\* the update a step applies: the new weights and the step increment, or
\* none when the step raised
Applied(o) ==
    IF o.ret.kind = "ok"
    THEN [done |-> TRUE,
          weights |-> Updated(o.w.ops, o.ret.op, [v \in VarNames |-> 0]),
          step |-> IF o.w.ops[o.ret.op].global_step # None THEN 1 ELSE 0]
    ELSE [done |-> FALSE, weights |-> [v \in VarNames |-> 0], step |-> 0]

\* the kinds of the tensors a step has put on the queue
QueuedKinds(o) ==
    {o.w.ops[o.w.q.vals[i].value].kind :
        i \in {j \in DOMAIN o.w.q.vals : o.w.q.vals[j].value # None}}

(***************************************************************************)
(* C9.  With gradient accumulation between compute_gradients and            *)
(* apply_gradients, an after-compute instance puts the gradients as         *)
(* computed on the queue, a before-apply instance puts the accumulated      *)
(* gradients on the queue, and the update applied is the same in both       *)
(* modes.                                                                   *)
(***************************************************************************)
C9_AccumulationSameUpdate ==
    (StepEnded /\ accumulate) =>
        /\ Mode = AFTER_COMPUTE => QueuedKinds(ThisStep) \subseteq {"grad"}
        /\ Mode = BEFORE_APPLY => QueuedKinds(ThisStep) \subseteq {"accum"}
        /\ Applied(ThisStep) = Applied(OtherStep)

(***************************************************************************)
(* C10.  Without gradient accumulation the mode has no observable effect:   *)
(* for the same loss, variables and filter set a training step puts the     *)
(* same keys and values on the queue in the same order and applies the same *)
(* update in both modes.                                                    *)
(***************************************************************************)
C10_ModeUnobservable ==
    (StepEnded /\ ~accumulate) =>
        /\ Queued(ThisStep) = Queued(OtherStep)
        /\ Applied(ThisStep) = Applied(OtherStep)

(***************************************************************************)
(* C11.  Whenever apply_gradients fails on malformed pairs, in either mode, *)
(* the failure is the error the wrapped optimizer's apply_gradients raises  *)
(* on the list given: the wrapper has delegated, once, before any error,    *)
(* has raised nothing of its own, and nothing follows the failed            *)
(* delegation (no catch, no retry).                                         *)
(***************************************************************************)
C11_WrappedErrorReachesCaller ==
    (Called("apply_gradients") /\ EndOf("apply_gradients").ev = "raise") =>
        LET call == CallOf("apply_gradients")
            seg == Segment("apply_gradients")
            direct == wrapped_apply_gradients(World, call.ref, call.global_step,
                                              call.name, {})
        IN  /\ Cardinality(Where(seg, "wrapped.apply_gradients")) = 1
            /\ seg[Len(seg)].ev = "wrapped.apply_gradients"
            /\ seg[Len(seg)].ref = call.ref
            /\ direct.ret.kind = "raise"
            /\ EndOf("apply_gradients").name = direct.ret.err

(***************************************************************************)
(* C12.  The reversal is confined to the offers: apply_gradients hands the  *)
(* wrapped optimizer the very list it was given, the update applies its     *)
(* pairs in the order received, and no call ever changes a list that        *)
(* exists (the offer step walks a reversed copy), in both modes and         *)
(* whether or not the commit is accepted.                                   *)
(***************************************************************************)
C12_Delegated ==
    Called("apply_gradients") =>
        LET call == CallOf("apply_gradients")
            end == EndOf("apply_gradients")
            dels == Only(Segment("apply_gradients"), {"wrapped.apply_gradients"})
        IN  /\ \A i \in DOMAIN dels : dels[i].ref = call.ref
            /\ [i \in DOMAIN heap[call.ref] |-> heap[call.ref][i].v] = var_list
            /\ end.ev = "return" => ops[end.val].pairs = heap[call.ref]

C12_ListsKept == \A ref \in DOMAIN heap : heap'[ref] = heap[ref]

C12_ReversalConfinedToOffers == [](C12_Delegated) /\ [][C12_ListsKept]_vars

\* a before-apply instance has offered two pairs, last pair first, the commit
\* was accepted and the update was built
C12_Witness ==
    /\ Mode = BEFORE_APPLY
    /\ Called("apply_gradients")
    /\ EndOf("apply_gradients").ev = "return"
    /\ Len(heap[CallOf("apply_gradients").ref]) = 2
    /\ Only(Segment("apply_gradients"), {"offer"})[1].key
          = heap[CallOf("apply_gradients").ref][2].v \o GradSuffix
    /\ CommitOf("apply_gradients") # None

(***************************************************************************)
(* C13.  In after-compute mode with an accepted commit compute_gradients    *)
(* returns a list of the length and order of the produced one, in which     *)
(* only the gradient at index 0 is replaced, by a pass-through identity of  *)
(* itself; every variable and every gradient at index 1 or higher is the    *)
(* object the wrapped optimizer produced.                                   *)
(***************************************************************************)
C13_OnlyFirstGradientWrapped ==
    (Mode = AFTER_COMPUTE /\ Called("compute_gradients") /\ OfferedFrom # None) =>
        (CommitOf("compute_gradients") # None =>
            LET end == EndOf("compute_gradients")
                produced == heap[OfferedFrom]
            IN  /\ end.ev = "return"
                /\ Len(heap[end.ref]) = Len(produced)
                /\ \A i \in DOMAIN produced :
                     /\ heap[end.ref][i].v = produced[i].v
                     /\ i > 1 => heap[end.ref][i].g = produced[i].g
                /\ ops[heap[end.ref][1].g].kind = "identity"
                /\ ops[heap[end.ref][1].g].inputs = {produced[1].g})

(***************************************************************************)
(* C14.  Over one training step of one instance (compute_gradients, then    *)
(* apply_gradients on the resulting list), in either mode, the queue is     *)
(* written at one interception point only: every pair is offered exactly    *)
(* once and the commit is called exactly once.                              *)
(***************************************************************************)
\* the list the wrapped optimizer produced in this step
Produced == Only(Segment("compute_gradients"), {"wrapped.compute_gradients"})[1].ref

C14_QueueWrittenOncePerStep ==
    (StepEnded /\ var_list # <<>>) =>
        LET offers == Only(log, {"offer"})
            items == heap[Produced]
        IN  /\ Len(Only(log, {"commit"})) = 1
            /\ Len(offers) = Len(items)
            /\ \A i \in DOMAIN items :
                 Cardinality({j \in DOMAIN offers :
                                 offers[j].key = items[i].v \o GradSuffix}) = 1

\* an after-compute instance has finished a step with gradient accumulation
\* on two variables: compute_gradients enqueued, apply_gradients returned
C14_Witness ==
    /\ pc = "applied"
    /\ accumulate
    /\ Mode = AFTER_COMPUTE
    /\ Len(var_list) = 2
    /\ q.enqueued
    /\ Len(Only(log, {"commit"})) = 1

(***************************************************************************)
(* C15.  get_name, get_slot, get_slot_names and variables return exactly    *)
(* what the wrapped optimizer's accessor of the same name returns for the   *)
(* same arguments, in every state and whatever name the wrapper was built   *)
(* with; an accessor call makes no offer and no commit, and changes nothing *)
(* of the queue, the graph, the lists or the wrapped optimizer.             *)
(***************************************************************************)
\* the answer of the wrapped optimizer, in the state it was in at the call
Direct ==
    LET w == [World EXCEPT !.opt = got.opt]
    IN  CASE got.meth = "get_name" -> wrapped_get_name(w).ret
          [] got.meth = "get_slot" -> wrapped_get_slot(w, got.var, got.name).ret
          [] got.meth = "get_slot_names" -> wrapped_get_slot_names(w).ret
          [] got.meth = "variables" -> wrapped_variables(w).ret

C15_SameAnswer == got.meth # "none" => got.value = Direct

\* a step that is no call of compute_gradients or apply_gradients and no
\* accumulation (these change pc) leaves everything but  got  as it was
C15_Quiet ==
    pc' = pc => /\ q' = q
                /\ log' = log
                /\ ops' = ops
                /\ heap' = heap
                /\ opt' = opt

C15_AccessorsDelegate == [](C15_SameAnswer) /\ [][C15_Quiet]_vars

\* a wrapper built with a name of its own was asked its name after an update
\* that created a slot, and answered with the wrapped optimizer's name
C15_Witness ==
    /\ self._name = "outfeeder"
    /\ got.meth = "get_name"
    /\ got.value = WrappedName
    /\ got.opt.slots # <<>>
    /\ q.enqueued

(***************************************************************************)
(* C16.  The instance is what its constructor made it: the wrapped          *)
(* optimizer, the queue and the mode it holds are those it was built with,  *)
(* it holds nothing else, and no call of compute_gradients, apply_gradients *)
(* or an accessor changes any of it.                                        *)
(***************************************************************************)
C16_AsBuilt ==
    \E m \in OutfeedOptimizerMode, n \in {Omitted, "outfeeder"} :
        self = OutfeedOptimizer("wrapped", "queue", m, n)

C16_Kept == self' = self

C16_ConfigurationFixed == [](C16_AsBuilt) /\ [][C16_Kept]_vars

\* an after-compute instance has enqueued in compute_gradients, applied, and
\* answered variables() with the slot the update created
C16_Witness ==
    /\ pc = "applied"
    /\ Mode = AFTER_COMPUTE
    /\ q.enqueued
    /\ got.meth = "variables"
    /\ got.value # <<>>

(***************************************************************************)
(* C17.  An OutfeedOptimizer built without a mode argument is a             *)
(* before-apply instance: compute_gradients makes no offer and no commit    *)
(* and returns the list the wrapped optimizer produced; apply_gradients     *)
(* offers every pair and commits before it calls the wrapped optimizer's    *)
(* apply_gradients.                                                         *)
(***************************************************************************)
C17_DefaultIsBeforeApply ==
    /\ Mode = BEFORE_APPLY
    /\ Called("compute_gradients") =>
          /\ Only(Segment("compute_gradients"), {"offer", "commit", "gate"}) = <<>>
          /\ EndOf("compute_gradients").ev = "return" =>
                EndOf("compute_gradients").ref = Produced
    /\ Called("apply_gradients") =>
          LET seg == Segment("apply_gradients")
          IN  /\ Len(Only(seg, {"offer"})) = Len(heap[CallOf("apply_gradients").ref])
              /\ Len(Only(seg, {"commit"})) = 1
              /\ Len(Only(seg, {"wrapped.apply_gradients"})) = 1
              /\ Before(seg, "offer", "wrapped.apply_gradients")
              /\ Before(seg, "commit", "wrapped.apply_gradients")

\* the instance has returned the produced list from compute_gradients with
\* nothing on the queue, and then enqueued two gradients in apply_gradients
C17_Witness ==
    /\ pc = "applied"
    /\ ~accumulate
    /\ EndOf("compute_gradients").ref = CallOf("apply_gradients").ref
    /\ Len(q.vals) = 2
    /\ q.enqueued
    /\ Only(Segment("compute_gradients"), {"offer"}) = <<>>

(***************************************************************************)
(* connection_type.py (feature_examples/tensorflow/connection_type): the    *)
(* script configures the IPU system with the connection type of its         *)
(* --connection_type option, runs one graph in a session and prints the     *)
(* result, "Compiled", or an "ERROR: " line.                                *)
(*                                                                          *)
(*  connection  holds the script's position (pc), its option, the           *)
(* connection type and device version it configured, whether the session    *)
(* is open, what sess.run did, and the lines printed.                       *)
(***************************************************************************)
\* the values of the --connection_type option
ConnectionChoices == {"ALWAYS", "ON_DEMAND", "PRE_COMPILE", "NEVER"}

\* device_connection_type(value): the DeviceConnectionType of that name
device_connection_type(value) ==
    IF value \in ConnectionChoices THEN <<"DeviceConnectionType", value>> ELSE <<>>

NEVER == <<"DeviceConnectionType", "NEVER">>

\* "configured for compilation only"
CompilationOnly ==
    <<"c", "o", "n", "f", "i", "g", "u", "r", "e", "d", " ", "f", "o", "r",
      " ", "c", "o", "m", "p", "i", "l", "a", "t", "i", "o", "n", " ", "o",
      "n", "l", "y">>

\* "Compiled"
CompiledLine == <<"C", "o", "m", "p", "i", "l", "e", "d">>

\* "ERROR: "
ErrorPrefix == <<"E", "R", "R", "O", "R", ":", " ">>

\* the messages an InvalidArgumentError of sess.run may carry: the phrase
\* alone, inside a longer message, cut short, with another capital, an
\* unrelated message and the empty one
Messages ==
    {CompilationOnly,
     <<"[", "P", "o", "p", "l", "a", "r", "]", " ">> \o CompilationOnly \o <<".">>,
     SubSeq(CompilationOnly, 1, Len(CompilationOnly) - 1),
     <<"C">> \o SubSeq(CompilationOnly, 2, Len(CompilationOnly)),
     CompilationOnly \o <<"!">>,
     <<"n", "o", " ", "d", "e", "v", "i", "c", "e">>,
     <<>>}

\* what sess.run(out, fd) can do: return the result, raise
\* InvalidArgumentError with a message, or raise something else
RunOutcomes ==
    {[kind |-> "result", message |-> <<>>]}
      \cup {[kind |-> "InvalidArgumentError", message |-> m] : m \in Messages}
      \cup {[kind |-> k, message |-> <<>>] : k \in {"UnavailableError", "KeyboardInterrupt"}}

\* my_graph(pa, pb, pc), on the values fed to the placeholders a, b and c
my_graph(a, b, c) == [i \in DOMAIN a |-> (a[i] + b[i]) + (a[i] + c[i])]

\* a printed line: the text, or the value for print(result)
Line(text, value) == [text |-> text, value |-> value]

\* Faulty variant of handle_invalid_argument: the connection type is not
\* tested.
handle_invalid_argument_any_type(connection_type, message) ==
    IF Contains(message, CompilationOnly)
    THEN Line(CompiledLine, <<>>)
    ELSE Line(ErrorPrefix \o message, <<>>)

\* the handler of InvalidArgumentError: the line it prints
handle_invalid_argument(connection_type, message) ==
    IF connection_type = NEVER /\ Contains(message, CompilationOnly)
    THEN Line(CompiledLine, <<>>)
    ELSE Line(ErrorPrefix \o message, <<>>)

\* Faulty variant of Handler: the last clause is  except Exception, which
\* does not catch KeyboardInterrupt.
Handler_exceptions_only(kind) ==
    IF kind = "InvalidArgumentError" THEN "invalid argument"
    ELSE IF kind = "KeyboardInterrupt" THEN "none"
    ELSE "bare"

\* the except clause of the try statement that catches an exception: the
\* clause of tf.errors.InvalidArgumentError, and the bare clause for
\* everything else
Handler(kind) ==
    IF kind = "InvalidArgumentError" THEN "invalid argument" ELSE "bare"

\* the script has parsed its options; an option left out is "ALWAYS"
InitConnection ==
    /\ \E o \in ConnectionChoices \cup {Omitted} :
         connection = [pc |-> "parsed",
                       option |-> IF o = Omitted THEN "ALWAYS" ELSE o,
                       type |-> <<>>, version |-> "", open |-> FALSE,
                       ran |-> [kind |-> "none", message |-> <<>>],
                       printed |-> <<>>, escaped |-> ""]
    /\ pipelining = [pc |-> "not started"]
    /\ estimator = [pc |-> "not started"]
    /\ recompilation = [pc |-> "not started"]
    /\ gru = [pc |-> "not started"]
    /\ NoTraining

\* the IPU system is configured with the connection type of the option, and
\* with the device version for the types that do not attach to a device
Configure ==
    /\ connection.pc = "parsed"
    /\ connection' =
         [connection EXCEPT
            !.pc = "configured",
            !.type = device_connection_type(connection.option),
            !.version = IF connection.option \in {"NEVER", "PRE_COMPILE"}
                        THEN "ipu2" ELSE ""]
    /\ UNCHANGED <<training, pipelining, estimator, recompilation, gru>>

\* with tf.compat.v1.Session() as sess
OpenSession ==
    /\ connection.pc = "configured"
    /\ connection' = [connection EXCEPT !.pc = "session", !.open = TRUE]
    /\ UNCHANGED <<training, pipelining, estimator, recompilation, gru>>

\* sess.run(out, fd) returns or raises
SessionRun ==
    /\ connection.pc = "session"
    /\ \E r \in RunOutcomes :
         connection' = [connection EXCEPT !.pc = "ran", !.ran = r]
    /\ UNCHANGED <<training, pipelining, estimator, recompilation, gru>>

\* the rest of the try statement: print(result), or the handler of the
\* exception raised; an exception no clause catches leaves the statement
Report ==
    /\ connection.pc = "ran"
    /\ LET r == connection.ran
           clause == IF r.kind = "result" THEN "print" ELSE Handler(r.kind)
           line == IF clause = "print"
                   THEN Line(<<>>, my_graph(<<1, 1>>, <<0, 1>>, <<1, 5>>))
                   ELSE IF clause = "invalid argument"
                   THEN handle_invalid_argument(connection.type, r.message)
                   ELSE Line(ErrorPrefix \o <<r.kind>>, <<>>)
       IN  connection' = [connection EXCEPT
                            !.pc = "reported",
                            !.printed = IF clause = "none" THEN connection.printed
                                        ELSE Append(connection.printed, line),
                            !.escaped = IF clause = "none" THEN r.kind ELSE ""]
    /\ UNCHANGED <<training, pipelining, estimator, recompilation, gru>>

\* the with statement closes the session, also when an exception leaves it
CloseSession ==
    /\ connection.pc = "reported"
    /\ connection' = [connection EXCEPT !.pc = "done", !.open = FALSE]
    /\ UNCHANGED <<training, pipelining, estimator, recompilation, gru>>

NextConnection == Configure \/ OpenSession \/ SessionRun \/ Report \/ CloseSession

SpecConnection == InitConnection /\ [][NextConnection]_vars

\* once sess.run has returned or raised, the script goes on to its end
SpecConnectionEnds ==
    InitConnection /\ [][NextConnection]_vars
      /\ WF_vars(Report) /\ WF_vars(CloseSession)

(***************************************************************************)
(* C18.  An InvalidArgumentError of the session run is reported as success  *)
(* (the one line "Compiled", no "ERROR: " line) exactly when the connection *)
(* type is NEVER and the message contains "configured for compilation       *)
(* only"; in every other case the one line printed is "ERROR: " followed by *)
(* the message.                                                             *)
(***************************************************************************)
C18_CompiledOnlyWhenNever ==
    (connection.pc \in {"reported", "done"}
       /\ connection.ran.kind = "InvalidArgumentError") =>
        LET message == connection.ran.message
            expected == connection.option = "NEVER"
                          /\ Contains(message, CompilationOnly)
        IN  /\ Len(connection.printed) = 1
            /\ expected => connection.printed[1].text = CompiledLine
            /\ ~expected => connection.printed[1].text = ErrorPrefix \o message
            /\ connection.printed[1].text = CompiledLine <=> expected

\* with ALWAYS an InvalidArgumentError whose message contains the phrase was
\* reported as an error
C18_Witness ==
    /\ connection.pc = "done"
    /\ connection.option = "ALWAYS"
    /\ connection.ran.kind = "InvalidArgumentError"
    /\ Contains(connection.ran.message, CompilationOnly)
    /\ Len(connection.ran.message) > Len(CompilationOnly)
    /\ connection.printed[1].text = ErrorPrefix \o connection.ran.message

(***************************************************************************)
(* pipelining.py (feature_examples/tensorflow/pipelining): the number of    *)
(* steps of the training loop.  Each step consumes                          *)
(* batch_size * gradient_accumulation_count * repeat_count examples.        *)
(*                                                                          *)
(*  pipelining  holds the script's position (pc), its options (--epochs is  *)
(* a float, given here in halves of an epoch), the size of the dataset,     *)
(* what it computed, and the loop counter with the examples consumed.       *)
(***************************************************************************)
\* the largest --batch-size
MaxBatchSize == 2
\* the largest --gradient-accumulation-count and --repeat-count
MaxCount == 2
\* the largest dataset, in examples
MaxExamples == 3
\* the largest --epochs, in halves of an epoch
MaxEpochHalves == 4

\* int(epochs * n) for epochs = halves / 2 >= 0: the product truncated
IntOfEpochs(halves, n) == (halves * n) \div 2

\* Faulty variant of StepsFor: the plain quotient plus one.
StepsFor_quotient_plus_one(num_train_examples, examples_per_step) ==
    (num_train_examples \div examples_per_step) + 1

\* steps = ((num_train_examples - 1) // examples_per_step) + 1
StepsFor(num_train_examples, examples_per_step) ==
    ((num_train_examples - 1) \div examples_per_step) + 1

InitPipelining ==
    /\ \E bs \in 1..MaxBatchSize, gac \in 1..MaxCount, rpt \in 1..MaxCount,
          halves \in 0..MaxEpochHalves, n \in 0..MaxExamples, single \in BOOLEAN :
         pipelining = [pc |-> "parsed", batch_size |-> bs,
                       gradient_accumulation_count |-> gac, repeat_count |-> rpt,
                       epoch_halves |-> halves, n_examples |-> n,
                       run_single_step |-> single,
                       num_train_examples |-> 0, examples_per_step |-> 0,
                       steps |-> 0, step |-> 0, used |-> 0]
    /\ connection = [pc |-> "not started"]
    /\ estimator = [pc |-> "not started"]
    /\ recompilation = [pc |-> "not started"]
    /\ gru = [pc |-> "not started"]
    /\ NoTraining

\* the script computes the number of steps
ComputeSteps ==
    /\ pipelining.pc = "parsed"
    /\ LET num_train_examples ==
               IntOfEpochs(pipelining.epoch_halves, pipelining.n_examples)
           examples_per_step ==
               pipelining.batch_size * pipelining.gradient_accumulation_count
                 * pipelining.repeat_count
           steps == StepsFor(num_train_examples, examples_per_step)
       IN  pipelining' =
             [pipelining EXCEPT
                !.pc = "training",
                !.num_train_examples = num_train_examples,
                !.examples_per_step = examples_per_step,
                !.steps = IF pipelining.run_single_step THEN 1 ELSE steps]
    /\ UNCHANGED <<training, connection, estimator, recompilation, gru>>

\* one iteration of  for step in range(steps)
TrainStep ==
    /\ pipelining.pc = "training"
    /\ pipelining.step < pipelining.steps
    /\ pipelining' = [pipelining EXCEPT
                        !.step = pipelining.step + 1,
                        !.used = pipelining.used + pipelining.examples_per_step]
    /\ UNCHANGED <<training, connection, estimator, recompilation, gru>>

\* the loop ends
EndTraining ==
    /\ pipelining.pc = "training"
    /\ pipelining.step >= pipelining.steps
    /\ pipelining' = [pipelining EXCEPT !.pc = "done"]
    /\ UNCHANGED <<training, connection, estimator, recompilation, gru>>

NextPipelining == ComputeSteps \/ TrainStep \/ EndTraining

SpecPipelining == InitPipelining /\ [][NextPipelining]_vars

(***************************************************************************)
(* C19.  Without --run-single-step the number of steps is the ceiling of    *)
(* N / n for N = num_train_examples >= 0 and n = batch size * gradient      *)
(* accumulation count * repeat count >= 1: steps * n >= N, and              *)
(* (steps - 1) * n < N whenever N >= 1; the loop then consumes at least N   *)
(* examples.  With --run-single-step the number of steps is 1.              *)
(***************************************************************************)
\* the least k with k * n >= N
Ceiling(N, n) == CHOOSE k \in 0..N : k * n >= N /\ \A j \in 0..(k - 1) : j * n < N

C19_StepsAreCeiling ==
    pipelining.pc \in {"training", "done"} =>
        LET N == pipelining.num_train_examples
            n == pipelining.examples_per_step
            steps == pipelining.steps
        IN  /\ N >= 0
            /\ n >= 1
            /\ pipelining.run_single_step => steps = 1
            /\ ~pipelining.run_single_step =>
                  /\ steps = Ceiling(N, n)
                  /\ steps * n >= N
                  /\ N >= 1 => (steps - 1) * n < N
                  /\ pipelining.pc = "done" =>
                        (pipelining.step = steps /\ pipelining.used >= N)

\* a run of two steps or more whose examples fill the steps exactly
C19_Witness ==
    /\ pipelining.pc = "done"
    /\ ~pipelining.run_single_step
    /\ pipelining.steps >= 2
    /\ pipelining.used = pipelining.num_train_examples

(***************************************************************************)
(* ipu_estimator_cnn.py (feature_examples/tensorflow/ipuestimator): the     *)
(* step counts handed to IPUEstimator.train and IPUEstimator.evaluate.  The *)
(* estimator runs batches_per_step batches per device loop and needs a      *)
(* number of steps that is a multiple of it.                                *)
(*                                                                          *)
(*  estimator  holds the script's position (pc), its options, the sizes of  *)
(* the training and test sets, and the steps given to train and evaluate.   *)
(***************************************************************************)
\* the largest --batches-per-step
MaxBatchesPerStep == 3

\* Faulty variant of TrainSteps: the remainder is added.
TrainSteps_adds_remainder(num_train_examples, batch_size, batches_per_step) ==
    LET steps == num_train_examples \div batch_size
    IN  steps + (steps % batches_per_step)

\* train: steps = num_train_examples // batch_size, then
\* steps += batches_per_step - steps % batches_per_step
TrainSteps(num_train_examples, batch_size, batches_per_step) ==
    LET steps == num_train_examples \div batch_size
    IN  steps + (batches_per_step - (steps % batches_per_step))

\* test: steps = num_test_examples // batch_size, then
\* steps -= steps % batches_per_step
TestSteps(num_test_examples, batch_size, batches_per_step) ==
    LET steps == num_test_examples \div batch_size
    IN  steps - (steps % batches_per_step)

InitEstimator ==
    /\ \E bs \in 1..MaxBatchSize, bps \in 1..MaxBatchesPerStep,
          halves \in 0..MaxEpochHalves, ntrain \in 0..MaxExamples,
          ntest \in 0..MaxExamples, test_only \in BOOLEAN, train_only \in BOOLEAN :
         estimator = [pc |-> "parsed", batch_size |-> bs, batches_per_step |-> bps,
                      epoch_halves |-> halves, len_train |-> ntrain,
                      len_test |-> ntest, test_only |-> test_only,
                      train_only |-> train_only,
                      train_steps |-> 0, test_steps |-> 0, evaluated |-> 0]
    /\ connection = [pc |-> "not started"]
    /\ pipelining = [pc |-> "not started"]
    /\ recompilation = [pc |-> "not started"]
    /\ gru = [pc |-> "not started"]
    /\ NoTraining

\* train(ipu_estimator, args, x_train, y_train), unless --test-only
Train ==
    /\ estimator.pc = "parsed"
    /\ ~estimator.test_only
    /\ estimator' =
         [estimator EXCEPT
            !.pc = "trained",
            !.train_steps =
                TrainSteps(IntOfEpochs(estimator.epoch_halves, estimator.len_train),
                           estimator.batch_size, estimator.batches_per_step)]
    /\ UNCHANGED <<training, connection, pipelining, recompilation, gru>>

\* test(ipu_estimator, args, x_test, y_test), unless --train-only
Test ==
    /\ estimator.pc = IF estimator.test_only THEN "parsed" ELSE "trained"
    /\ ~estimator.train_only
    /\ LET steps == TestSteps(estimator.len_test, estimator.batch_size,
                              estimator.batches_per_step)
       IN  estimator' = [estimator EXCEPT
                           !.pc = "tested",
                           !.test_steps = steps,
                           !.evaluated = steps * estimator.batch_size]
    /\ UNCHANGED <<training, connection, pipelining, recompilation, gru>>

NextEstimator == Train \/ Test

SpecEstimator == InitEstimator /\ [][NextEstimator]_vars

(***************************************************************************)
(* C20.  The step count given to the estimator is a multiple of             *)
(* batches_per_step for every batch size, batches_per_step and dataset      *)
(* size: in train a multiple not less than num_train_examples //            *)
(* batch_size, in test a multiple not greater than num_test_examples //     *)
(* batch_size, so that the examples evaluated never exceed the test set.    *)
(***************************************************************************)
C20_StepsAreMultiples ==
    /\ (estimator.pc \in {"trained", "tested"} /\ ~estimator.test_only) =>
          /\ estimator.train_steps % estimator.batches_per_step = 0
          /\ estimator.train_steps >=
               IntOfEpochs(estimator.epoch_halves, estimator.len_train)
                 \div estimator.batch_size
    /\ estimator.pc = "tested" =>
          /\ estimator.test_steps % estimator.batches_per_step = 0
          /\ estimator.test_steps >= 0
          /\ estimator.test_steps <= estimator.len_test \div estimator.batch_size
          /\ estimator.evaluated = estimator.test_steps * estimator.batch_size
          /\ estimator.evaluated <= estimator.len_test

\* training was given more steps than the data has batches, and the test
\* fewer, both rounded to the device loop
C20_Witness ==
    /\ estimator.pc = "tested"
    /\ ~estimator.test_only
    /\ estimator.batches_per_step > 1
    /\ estimator.train_steps >
         IntOfEpochs(estimator.epoch_halves, estimator.len_train) \div estimator.batch_size
    /\ estimator.test_steps > 0
    /\ estimator.test_steps < estimator.len_test \div estimator.batch_size

(***************************************************************************)
(* recompilation.py (tech_notes_code/recompilation/tensorflow1): a script   *)
(* of three tests governed by the parameters CACHING, PLACEHOLDER and       *)
(* SAMEBATCH, which sets up the environment, runs the tests and prints      *)
(* their results.                                                           *)
(*                                                                          *)
(*  recompilation  holds the script's position (pc), its parameters, the    *)
(* environment variables it reads and writes, the names assigned so far,    *)
(* the batch size drawn, the names whose values were printed, and the       *)
(* error that ended the script.                                             *)
(***************************************************************************)
\* "--executable_cache_path=tmp_tutorial"
CachePath ==
    <<"-", "-", "e", "x", "e", "c", "u", "t", "a", "b", "l", "e", "_", "c",
      "a", "c", "h", "e", "_", "p", "a", "t", "h", "=", "t", "m", "p", "_",
      "t", "u", "t", "o", "r", "i", "a", "l">>

\* "--use_ipu_model"
UseIpuModel ==
    <<"-", "-", "u", "s", "e", "_", "i", "p", "u", "_", "m", "o", "d", "e",
      "l">>

\* an environment variable: whether it is in os.environ, and its value
EnvVar(value) == [set |-> TRUE, value |-> value]
Unset == [set |-> FALSE, value |-> <<>>]

\* TF_POPLAR_FLAGS before the script starts: not set, empty, another flag,
\* the cache path, or both
PoplarFlags ==
    {Unset, EnvVar(<<>>), EnvVar(UseIpuModel), EnvVar(CachePath),
     EnvVar(UseIpuModel \o <<" ">> \o CachePath)}

\* POPLAR_LOG_LEVEL before the script starts
LogLevels == {Unset, EnvVar(<<"I", "N", "F", "O">>), EnvVar(<<"D", "E", "B", "U", "G">>)}

\* Consideration 0: the environment after the setup
environment_setup(environ, CACHING) ==
    [environ EXCEPT
       !.TF_POPLAR_FLAGS =
          IF environ.TF_POPLAR_FLAGS.set /\ ~CACHING
          THEN EnvVar(<<>>)
          ELSE EnvVar(CachePath),
       !.POPLAR_LOG_LEVEL =
          IF ~environ.POPLAR_LOG_LEVEL.set
               \/ environ.POPLAR_LOG_LEVEL.value # <<"I", "N", "F", "O">>
          THEN EnvVar(<<"I", "N", "F", "O">>)
          ELSE environ.POPLAR_LOG_LEVEL]

\* np.random.randint(2, 101), up to the largest batch size followed
RandomBatchSizes == 2 .. (MaxBatchSize + 1)

\* the first of the names that has not been assigned, or "" if all have
RECURSIVE FirstUnassigned(_, _, _)
FirstUnassigned(names, assigned, i) ==
    IF i > Len(names) THEN ""
    ELSE IF names[i] \notin assigned THEN names[i]
    ELSE FirstUnassigned(names, assigned, i + 1)

\* the names read by the prints at the end of the script, in order
PrintedNames == <<"result0", "result1", "result2">>

\* the script starts with its three parameters and an environment
InitRecompilation ==
    /\ \E c \in BOOLEAN, p \in BOOLEAN, s \in BOOLEAN,
          f \in PoplarFlags, l \in LogLevels :
         recompilation =
            [pc |-> "start", CACHING |-> c, PLACEHOLDER |-> p, SAMEBATCH |-> s,
             environ |-> [TF_POPLAR_FLAGS |-> f, POPLAR_LOG_LEVEL |-> l],
             assigned |-> {}, bs |-> 0, printed |-> <<>>, error |-> ""]
    /\ connection = [pc |-> "not started"]
    /\ pipelining = [pc |-> "not started"]
    /\ estimator = [pc |-> "not started"]
    /\ gru = [pc |-> "not started"]
    /\ NoTraining

\* Consideration 0: Environment setup
EnvironmentSetup ==
    /\ recompilation.pc = "start"
    /\ recompilation' =
         [recompilation EXCEPT
            !.pc = "environment",
            !.environ = environment_setup(recompilation.environ,
                                          recompilation.CACHING)]
    /\ UNCHANGED <<training, connection, pipelining, estimator, gru>>

\* the warm up and caching test: result0 is assigned with or without the
\* placeholder
WarmUp ==
    /\ recompilation.pc = "environment"
    /\ recompilation' =
         [recompilation EXCEPT
            !.pc = "warm",
            !.assigned = recompilation.assigned \cup {"result0"}]
    /\ UNCHANGED <<training, connection, pipelining, estimator, gru>>

\* the placeholder test: result1 is assigned with or without the placeholder
PlaceholderTest ==
    /\ recompilation.pc = "warm"
    /\ recompilation' =
         [recompilation EXCEPT
            !.pc = "placeholder",
            !.assigned = recompilation.assigned \cup {"result1"}]
    /\ UNCHANGED <<training, connection, pipelining, estimator, gru>>

\* the batch size test: the batch size is 1 or drawn at random, and the
\* result is assigned to result2 with the placeholder and to result3 without
BatchSizeTest ==
    /\ recompilation.pc = "placeholder"
    /\ \E drawn \in RandomBatchSizes :
         recompilation' =
            [recompilation EXCEPT
               !.pc = "batch",
               !.bs = IF recompilation.SAMEBATCH THEN 1 ELSE drawn,
               !.assigned = recompilation.assigned
                              \cup {IF recompilation.PLACEHOLDER
                                    THEN "result2" ELSE "result3"}]
    /\ UNCHANGED <<training, connection, pipelining, estimator, gru>>

\* the prints of the results: reading a name that was never assigned raises
\* NameError, after the names before it were printed
PrintResults ==
    /\ recompilation.pc = "batch"
    /\ LET missing == FirstUnassigned(PrintedNames, recompilation.assigned, 1)
       IN  recompilation' =
              [recompilation EXCEPT
                 !.pc = IF missing = "" THEN "done" ELSE "failed",
                 !.printed = IF missing = "" THEN PrintedNames
                             ELSE IF missing = "result0" THEN <<>>
                             ELSE IF missing = "result1" THEN <<"result0">>
                             ELSE <<"result0", "result1">>,
                 !.error = IF missing = "" THEN "" ELSE "NameError"]
    /\ UNCHANGED <<training, connection, pipelining, estimator, gru>>

NextRecompilation ==
    EnvironmentSetup \/ WarmUp \/ PlaceholderTest \/ BatchSizeTest \/ PrintResults

SpecRecompilation == InitRecompilation /\ [][NextRecompilation]_vars

(***************************************************************************)
(* C21.  The executable cache is enabled exactly when CACHING is True:      *)
(* after the environment setup TF_POPLAR_FLAGS contains                     *)
(* "--executable_cache_path=tmp_tutorial" if CACHING is True and does not   *)
(* contain it if CACHING is False, whether or not TF_POPLAR_FLAGS was set   *)
(* beforehand.  The script violates it: with CACHING False and              *)
(* TF_POPLAR_FLAGS not set, the setup writes the cache path.                *)
(***************************************************************************)
C21_CacheExactlyWhenCaching ==
    recompilation.pc \notin {"not started", "start"} =>
        /\ recompilation.environ.TF_POPLAR_FLAGS.set
        /\ Contains(recompilation.environ.TF_POPLAR_FLAGS.value, CachePath)
             <=> recompilation.CACHING

(***************************************************************************)
(* C22.  The script runs to completion for every combination of CACHING,    *)
(* PLACEHOLDER and SAMEBATCH: the three results printed at the end have     *)
(* been assigned before they are read.  The script violates it: without     *)
(* the placeholder the batch size test assigns result3, and the print       *)
(* reads result2.                                                           *)
(***************************************************************************)
C22_ResultsAssignedBeforeRead ==
    /\ recompilation.pc = "batch" =>
         \A i \in DOMAIN PrintedNames : PrintedNames[i] \in recompilation.assigned
    /\ recompilation.pc # "failed"
    /\ recompilation.pc = "done" =>
         /\ recompilation.error = ""
         /\ recompilation.printed = PrintedNames

(***************************************************************************)
(* gru.py (kernel_benchmarks/tensorflow): the options of the GRU benchmark  *)
(* and the graph built from them.  The options are declared by add_args,    *)
(* parsed by benchmark.parse_opts, and read by graph_builder.               *)
(*                                                                          *)
(*  gru  holds the script's position (pc), the command line, the number of  *)
(* its arguments parsed so far, the options, the benchmark message logged   *)
(* and the graph built.                                                     *)
(***************************************************************************)
\* the longest command line followed
MaxArgs == 3

\* the flags of add_args that take no value
Flags == {"--train", "--no-train", "--popnn"}

\* the command lines of at most MaxArgs flags
CommandLines == UNION {[1 .. n -> Flags] : n \in 0 .. MaxArgs}

\* the destination of a flag and the constant its action stores
Destination(flag) == IF flag = "--popnn" THEN "popnn" ELSE "train"
Stored(flag) == flag # "--no-train"

\* the default an action declares: False for store_true, True for
\* store_false
ActionDefault(flag) == flag = "--no-train"

\* the flags in the order add_args declares them
Declared == <<"--train", "--no-train", "--popnn">>

\* parser.set_defaults(train=False, ...): the default of every action whose
\* destination is train becomes False
set_defaults(flag) == IF Destination(flag) = "train" THEN FALSE ELSE ActionDefault(flag)

\* the namespace before any argument is read: each destination takes the
\* default of the first action declared for it
RECURSIVE FirstFor(_, _)
FirstFor(dest, i) ==
    IF Destination(Declared[i]) = dest THEN Declared[i] ELSE FirstFor(dest, i + 1)

add_args == [train |-> set_defaults(FirstFor("train", 1)),
             popnn |-> set_defaults(FirstFor("popnn", 1))]

\* one flag of the command line acts on the namespace
Store(opts, flag) ==
    IF Destination(flag) = "train"
    THEN [opts EXCEPT !.train = Stored(flag)]
    ELSE [opts EXCEPT !.popnn = Stored(flag)]

\* graph_builder(opts, inputs): the cell used, the branch built and the
\* tensor returned
graph_builder(opts) ==
    [cell |-> IF opts.popnn THEN "PopnnGRU" ELSE "GRUCell",
     branch |-> IF opts.train THEN "training" ELSE "inference",
     returned |-> IF opts.train THEN "global_step" ELSE "output"]

NotBuilt == [cell |-> "", branch |-> "", returned |-> ""]

\* the benchmark is started with a command line
InitGru ==
    /\ \E argv \in CommandLines :
         gru = [pc |-> "start", argv |-> argv, parsed |-> 0,
                opts |-> [train |-> FALSE, popnn |-> FALSE],
                logged |-> "", built |-> NotBuilt]
    /\ connection = [pc |-> "not started"]
    /\ pipelining = [pc |-> "not started"]
    /\ estimator = [pc |-> "not started"]
    /\ recompilation = [pc |-> "not started"]
    /\ NoTraining

\* parse_opts builds the parser, calls add_args and starts parse_args with
\* the defaults
AddArgs ==
    /\ gru.pc = "start"
    /\ gru' = [gru EXCEPT !.pc = "parsing", !.opts = add_args]
    /\ UNCHANGED <<training, connection, pipelining, estimator, recompilation>>

\* parse_args reads the next flag of the command line
ParseArg ==
    /\ gru.pc = "parsing"
    /\ gru.parsed < Len(gru.argv)
    /\ gru' = [gru EXCEPT
                 !.parsed = gru.parsed + 1,
                 !.opts = Store(gru.opts, gru.argv[gru.parsed + 1])]
    /\ UNCHANGED <<training, connection, pipelining, estimator, recompilation>>

\* the command line is read: the benchmark message is logged
LogMessage ==
    /\ gru.pc = "parsing"
    /\ gru.parsed = Len(gru.argv)
    /\ gru' = [gru EXCEPT
                 !.pc = "logged",
                 !.logged = IF gru.opts.train THEN "Training" ELSE "Inference"]
    /\ UNCHANGED <<training, connection, pipelining, estimator, recompilation>>

\* the benchmark builds its graph
GraphBuilder ==
    /\ gru.pc = "logged"
    /\ gru' = [gru EXCEPT !.pc = "built", !.built = graph_builder(gru.opts)]
    /\ UNCHANGED <<training, connection, pipelining, estimator, recompilation>>

NextGru == AddArgs \/ ParseArg \/ LogMessage \/ GraphBuilder

SpecGru == InitGru /\ [][NextGru]_vars

\* the flag is on the command line
Given(flag) == \E i \in DOMAIN gru.argv : gru.argv[i] = flag

(***************************************************************************)
(* C23.  Computing the loss and the optimisation pass is the default: when  *)
(* neither --train nor --no-train is given, opts.train is true and          *)
(* graph_builder builds the training branch; --no-train is the only way to  *)
(* get the inference branch.  The benchmark violates it: set_defaults makes *)
(* train False, so the empty command line builds the inference branch.      *)
(***************************************************************************)
C23_TrainingIsDefault ==
    gru.pc = "built" =>
        /\ (~Given("--train") /\ ~Given("--no-train")) =>
              /\ gru.opts.train
              /\ gru.logged = "Training"
              /\ gru.built.branch = "training"
              /\ gru.built.returned = "global_step"
        /\ gru.built.branch = "inference" => Given("--no-train")

(***************************************************************************)
(* C24.  In after-compute mode with an accepted commit, compute_gradients   *)
(* succeeds for every list the wrapped optimizer can produce, a list whose  *)
(* first pair has no gradient included: it raises no error of its own, and  *)
(* the list returned has the length and the variables of the produced one.  *)
(* The wrapper violates it: the identity op of line 125 cannot be built on  *)
(* a None gradient.                                                         *)
(***************************************************************************)
C24_ComputeSucceedsWithoutGradient ==
    (Mode = AFTER_COMPUTE /\ Called("compute_gradients") /\ Produced # None) =>
        (CommitOf("compute_gradients") # None =>
            LET end == EndOf("compute_gradients")
                produced == heap[Produced]
            IN  /\ end.ev = "return"
                /\ Len(heap[end.ref]) = Len(produced)
                /\ \A i \in DOMAIN produced : heap[end.ref][i].v = produced[i].v)

(***************************************************************************)
(* C25.  In before-apply mode the offers and the commit of an invocation    *)
(* are made before the wrapped optimizer's apply_gradients is called, so    *)
(* when the wrapped apply then fails the queue is not put back: the         *)
(* matching gradients of that step stay in the queue, and the enqueue op    *)
(* built on them stays in the graph.  In after-compute mode a failing       *)
(* apply_gradients makes no offer and no commit.                            *)
(***************************************************************************)
\* what the offers of the pairs leave in an empty queue
Kept(items) ==
    LET sel == SelectSeq(Reverse(items),
                         LAMBDA p : Accepts(q.filters, p.v \o GradSuffix))
    IN  [i \in DOMAIN sel |-> [key |-> sel[i].v \o GradSuffix, value |-> sel[i].g]]

C25_FailedApplyKeepsQueue ==
    (Called("apply_gradients") /\ EndOf("apply_gradients").ev = "raise") =>
        LET seg == Segment("apply_gradients")
            items == heap[CallOf("apply_gradients").ref]
        IN  /\ (Mode = BEFORE_APPLY /\ Where(seg, "wrapped.apply_gradients") # {}) =>
                  /\ Len(Only(seg, {"offer"})) = Len(items)
                  /\ Len(Only(seg, {"commit"})) = 1
                  /\ Before(seg, "offer", "wrapped.apply_gradients")
                  /\ Before(seg, "commit", "wrapped.apply_gradients")
                  /\ q.vals = Kept(items)
                  /\ Kept(items) # <<>> =>
                        /\ q.enqueued
                        /\ CommitOf("apply_gradients") # None
                        /\ ops[CommitOf("apply_gradients")].kind = "enqueue"
                        /\ ops[CommitOf("apply_gradients")].vals = Kept(items)
            /\ Mode = AFTER_COMPUTE =>
                  /\ Only(seg, {"offer", "commit"}) = <<>>
                  /\ Len(Only(log, {"commit"})) = 1

\* a before-apply call was given the gradient of a tensor that is no
\* variable next to the gradient of a variable: the variable's gradient was
\* enqueued, and the wrapped optimizer then refused the update
C25_Witness ==
    /\ Mode = BEFORE_APPLY
    /\ Called("apply_gradients")
    /\ EndOf("apply_gradients").ev = "raise"
    /\ EndOf("apply_gradients").name = "NotImplementedError"
    /\ Len(heap[CallOf("apply_gradients").ref]) = 2
    /\ Len(q.vals) = 1
    /\ q.vals[1].value # None
    /\ q.enqueued

(***************************************************************************)
(* C26.  For every connection type and every outcome of the session run (a  *)
(* result, an InvalidArgumentError, any other exception) main prints        *)
(* exactly one of: the result, "Compiled", or a line starting with          *)
(* "ERROR: "; no exception of the session run escapes main, and the session *)
(* is closed in every case.                                                 *)
(***************************************************************************)
StartsWith(s, prefix) == Len(s) >= Len(prefix) /\ SubSeq(s, 1, Len(prefix)) = prefix

C26_OneLine ==
    connection.pc \in {"reported", "done"} =>
        /\ connection.escaped = ""
        /\ Len(connection.printed) = 1
        /\ LET line == connection.printed[1]
           IN  IF connection.ran.kind = "result"
               THEN line = Line(<<>>, my_graph(<<1, 1>>, <<0, 1>>, <<1, 5>>))
               ELSE /\ line.value = <<>>
                    /\ line.text = CompiledLine \/ StartsWith(line.text, ErrorPrefix)
                    /\ connection.ran.kind # "InvalidArgumentError" =>
                          StartsWith(line.text, ErrorPrefix)

C26_OpenInsideWith ==
    connection.open <=> connection.pc \in {"session", "ran", "reported"}

C26_OneLineThenClosed ==
    /\ [](C26_OneLine /\ C26_OpenInsideWith)
    /\ (connection.pc = "ran") ~> (connection.pc = "done" /\ ~connection.open)

\* the session run was interrupted from the keyboard: the bare clause
\* printed one error line and the session was closed
C26_Witness ==
    /\ connection.pc = "done"
    /\ connection.ran.kind = "KeyboardInterrupt"
    /\ Len(connection.printed) = 1
    /\ StartsWith(connection.printed[1].text, ErrorPrefix)
    /\ connection.escaped = ""
    /\ ~connection.open

====
